---- MODULE Spec2Model ----
(***************************************************************************)
(* CortexAI: the streaming chat and compare endpoints                      *)
(* (server/routes/chat.py, server/routes/compare.py).                      *)
(*                                                                         *)
(* One behaviour is one HTTP request to /v1/chat/stream or                 *)
(* /v1/compare/stream: the async generator event_stream() advancing from   *)
(* yield to yield, interleaved with the asyncio tasks and worker threads   *)
(* that run the provider calls.  Python strings are TLA+ strings.          *)
(***************************************************************************)
EXTENDS Integers, Sequences, FiniteSets, TLC

(***************************************************************************)
(* Bounds of the model.                                                    *)
(***************************************************************************)
\* longest target list a modelled compare request carries
MaxTargets == 3
\* longest single-block text handed to _iter_stream_lines
MaxTextLen == 300
\* how far beyond the routing policy's length threshold a modelled prompt goes
MaxOver == 100
\* largest prompt and completion count of one vendor response
MaxVendorTokens == 2
\* how many update() calls a modelled TokenTracker gets between two resets
MaxRequests == 2
\* how many targets beyond MAX_COMPARE_TARGETS a modelled request body carries
MaxExtraTargets == 2
\* how many threads of the web server handle requests at once
MaxThreads == 2
\* how many requests the web server takes in one behaviour
MaxWebRequests == 2
\* largest max_retries a PromptOptimizer is built with
MaxRetries == 3

(***************************************************************************)
(* Program constants.                                                      *)
(***************************************************************************)
MAX_COMPARE_TARGETS == 4
\* chunk_size of _iter_stream_lines
chunk_size == 120
\* the routing policy's length threshold
LengthThreshold == 900

\* Python's None (JSON null)
None == [is_none |-> TRUE]

Min(a, b) == IF a <= b THEN a ELSE b

\* how a call ends: with a value handed to the caller or with an exception
\* raised to the caller
Returns(value) == [kind |-> "value", response |-> value]
RaisesToCaller(exception) == [kind |-> "exc", exception |-> exception]

(***************************************************************************)
(* Python string operations.                                               *)
(***************************************************************************)
CharAt(s, k) == SubSeq(s, k, k)

\* str.strip() with no argument removes leading and trailing whitespace
IsSpace(c) == c \in {" ", "\t", "\n", "\r", "\f"}

RECURSIVE LStrip(_)
LStrip(s) ==
    IF s = "" THEN ""
    ELSE IF IsSpace(CharAt(s, 1)) THEN LStrip(SubSeq(s, 2, Len(s)))
    ELSE s

RECURSIVE RStrip(_)
RStrip(s) ==
    IF s = "" THEN ""
    ELSE IF IsSpace(CharAt(s, Len(s))) THEN RStrip(SubSeq(s, 1, Len(s) - 1))
    ELSE s

Strip(s) == RStrip(LStrip(s))

UpperLetters == "ABCDEFGHIJKLMNOPQRSTUVWXYZ"
LowerLetters == "abcdefghijklmnopqrstuvwxyz"

\* A module is written in ASCII.  Two characters outside ASCII matter to
\* str.lower() and are written here with characters no modelled text uses
\* otherwise: "@" is U+0130 (LATIN CAPITAL LETTER I WITH DOT ABOVE) and "^" is
\* U+0307 (COMBINING DOT ABOVE).
DottedCapitalI == "@"
CombiningDot == "^"

\* the lower-case form of each upper-case letter; the lower-case form of
\* U+0130 is the two characters "i", U+0307
LowerOf ==
    [c \in { CharAt(UpperLetters, k) : k \in 1..26 } |->
        CharAt(LowerLetters, CHOOSE k \in 1..26 : CharAt(UpperLetters, k) = c)]
    @@ (DottedCapitalI :> ("i" \o CombiningDot))

LowerChar(c) == IF c \in DOMAIN LowerOf THEN LowerOf[c] ELSE c

\* str.lower(): each character's lower-case form, in order
RECURSIVE Lower(_)
Lower(s) ==
    IF Len(s) <= 1 THEN LowerChar(s)
    ELSE LET h == Len(s) \div 2
         IN Lower(SubSeq(s, 1, h)) \o Lower(SubSeq(s, h + 1, Len(s)))

\* s * n
RECURSIVE Repeat(_, _)
Repeat(s, n) ==
    IF n <= 0 THEN ""
    ELSE LET h == Repeat(s, n \div 2)
         IN IF n % 2 = 0 THEN h \o h ELSE h \o h \o s

\* Python's  sub in text
Contains(text, sub) ==
    \E k \in 1..(Len(text) - Len(sub) + 1) : SubSeq(text, k, k + Len(sub) - 1) = sub

\* str(x) of a float holding a whole number of seconds
FormatFloat(x) == ToString(x) \o ".0"

\* the line boundaries str.splitlines recognises among the modelled characters
IsLineBreak(c) == c \in {"\n", "\r", "\f"}

\* index of the last character of the first line of s, terminator included
FirstLineEnd(s) ==
    IF \E p \in 1..Len(s) : IsLineBreak(CharAt(s, p))
    THEN LET p == CHOOSE q \in 1..Len(s) :
                      /\ IsLineBreak(CharAt(s, q))
                      /\ \A r \in 1..(q - 1) : ~IsLineBreak(CharAt(s, r))
         IN IF CharAt(s, p) = "\r" /\ p < Len(s) /\ CharAt(s, p + 1) = "\n"
            THEN p + 1 ELSE p
    ELSE Len(s)

\* text.splitlines(keepends=True)
RECURSIVE SplitLines(_)
SplitLines(s) ==
    IF s = "" THEN << >>
    ELSE LET k == FirstLineEnd(s)
         IN << SubSeq(s, 1, k) >> \o SplitLines(SubSeq(s, k + 1, Len(s)))

\* [text[i:i + size] for i in range(0, len(text), size)]
Chunks(text, size) ==
    [k \in 1..((Len(text) + size - 1) \div size) |->
        SubSeq(text, (k - 1) * size + 1, Min(k * size, Len(text)))]

\* text.splitlines(): the lines without their terminators
RECURSIVE SplitLinesNoEnds(_)
SplitLinesNoEnds(s) ==
    IF s = "" THEN << >>
    ELSE LET k == FirstLineEnd(s)
             end == IF ~IsLineBreak(CharAt(s, k)) THEN 0
                    ELSE IF k > 1 /\ CharAt(s, k - 1) = "\r" /\ CharAt(s, k) = "\n" THEN 2
                    ELSE 1
         IN << SubSeq(s, 1, k - end) >> \o SplitLinesNoEnds(SubSeq(s, k + 1, Len(s)))

\* slip: splitlines() is called without keepends
_iter_stream_lines_ends_dropped(text) ==
    IF text = "" THEN << >>
    ELSE LET lines == SplitLinesNoEnds(text)
         IN IF Len(lines) <= 1 THEN Chunks(text, chunk_size) ELSE lines

\* slip: a single block is handed on whole
_iter_stream_lines_unchunked(text) ==
    IF text = "" THEN << >> ELSE SplitLines(text)

_iter_stream_lines(text) ==
    IF text = "" THEN << >>
    ELSE LET lines == SplitLines(text)
         IN IF Len(lines) <= 1 THEN Chunks(text, chunk_size) ELSE lines

(***************************************************************************)
(* The unified result model.                                               *)
(***************************************************************************)
TokenUsage(p, c, t) ==
    [prompt_tokens |-> p, completion_tokens |-> c, total_tokens |-> t]

NormalizedError(code, message, provider, retryable, details) ==
    [code |-> code, message |-> message, provider |-> provider,
     retryable |-> retryable, details |-> details]

OrUnknown(s) == IF s = "" THEN "unknown" ELSE s

\* a details dictionary is the set of its <<key, value>> items;  details or {}
NoDetails == {}

\* str(uuid.uuid4()): a token no other call obtains, named here by the call
\* that draws it (the purpose and the target index it is drawn for)
uuid4(purpose, k) == "uuid-" \o purpose \o "-" \o ToString(k)

(***************************************************************************)
(* utils/token_tracker.py and the usage dictionaries of the clients.       *)
(***************************************************************************)
\* the counters after reset(): all zero
reset ==
    [total_prompt_tokens |-> 0, total_completion_tokens |-> 0, total_tokens |-> 0,
     requests |-> 0]

\* TokenTracker(): __init__ ends with self.reset()
TokenTracker == reset

\* usage.get(key, 0)
Get(usage, key) == IF key \in DOMAIN usage THEN usage[key] ELSE 0

\* the empty dict
EmptyDict == << >>

\* isinstance(usage, UnifiedResponse)
IsUnifiedResponse(usage) == "token_usage" \in DOMAIN usage

\* slip: {} counts as a request
update_counts_empty(self, usage) ==
    IF usage = None THEN self
    ELSE IF IsUnifiedResponse(usage)
    THEN [total_prompt_tokens |-> self.total_prompt_tokens + usage.token_usage.prompt_tokens,
          total_completion_tokens |->
              self.total_completion_tokens + usage.token_usage.completion_tokens,
          total_tokens |-> self.total_tokens + usage.token_usage.total_tokens,
          requests |-> self.requests + 1]
    ELSE [total_prompt_tokens |-> self.total_prompt_tokens + Get(usage, "prompt_tokens"),
          total_completion_tokens |->
              self.total_completion_tokens + Get(usage, "completion_tokens"),
          total_tokens |-> self.total_tokens + Get(usage, "total_tokens"),
          requests |-> self.requests + 1]

\* TokenTracker.update(usage): nothing for None and {}; else one more request
\* and each counter grown by the usage's field of its name
update(self, usage) ==
    IF DOMAIN usage = {} \/ usage = None THEN self
    ELSE IF IsUnifiedResponse(usage)
    THEN [total_prompt_tokens |-> self.total_prompt_tokens + usage.token_usage.prompt_tokens,
          total_completion_tokens |->
              self.total_completion_tokens + usage.token_usage.completion_tokens,
          total_tokens |-> self.total_tokens + usage.token_usage.total_tokens,
          requests |-> self.requests + 1]
    ELSE [total_prompt_tokens |-> self.total_prompt_tokens + Get(usage, "prompt_tokens"),
          total_completion_tokens |->
              self.total_completion_tokens + Get(usage, "completion_tokens"),
          total_tokens |-> self.total_tokens + Get(usage, "total_tokens"),
          requests |-> self.requests + 1]

\* TokenTracker.get_summary(): the four counters (and a timestamp, left out)
get_summary(self) ==
    [requests |-> self.requests,
     prompt_tokens |-> self.total_prompt_tokens,
     completion_tokens |-> self.total_completion_tokens,
     total_tokens |-> self.total_tokens]

\* the usage dict built from response.usage
UsageDict(usage) ==
    [prompt_tokens |-> usage.prompt_tokens,
     completion_tokens |-> usage.completion_tokens,
     total_tokens |-> usage.total_tokens]

\* slip: only the API call is inside the try, reading the response is not
get_completion_reads_outside_try(vendor, return_usage) ==
    IF vendor.kind = "raises" THEN Returns(<< None, None >>)
    ELSE IF return_usage /\ vendor.usage = None THEN RaisesToCaller("AttributeError")
    ELSE IF vendor.choices = 0 THEN RaisesToCaller("IndexError")
    ELSE Returns(<< vendor.content,
                    IF return_usage THEN UsageDict(vendor.usage) ELSE None >>)

\* DeepSeekClient.get_completion and GrokClient.get_completion, the same code.
\* One try holds the API call, the copy of the three counters of
\* response.usage (which raises when usage is None) and the read of
\* response.choices[0] (which raises when there is no choice); except
\* Exception returns (None, None).  The responses of the SDK always have the
\* attribute usage.
get_completion(vendor, return_usage) ==
    IF vendor.kind = "raises" THEN Returns(<< None, None >>)
    ELSE IF return_usage /\ vendor.usage = None THEN Returns(<< None, None >>)
    ELSE IF vendor.choices = 0 THEN Returns(<< None, None >>)
    ELSE Returns(<< vendor.content,
                    IF return_usage THEN UsageDict(vendor.usage) ELSE None >>)

\* slip: the error response carries the message as its text
_make_error_response_with_text(request_id, provider, model, code, message, retryable, details) ==
    [request_id |-> request_id,
     text |-> "Error: " \o message,
     provider |-> OrUnknown(provider),
     model |-> OrUnknown(model),
     latency_ms |-> 0,
     token_usage |-> TokenUsage(0, 0, 0),
     estimated_cost |-> 0,
     finish_reason |-> "error",
     error |-> NormalizedError(code, message, OrUnknown(provider), retryable, details)]

\* estimated_cost is held in millionths of a dollar
_make_error_response(request_id, provider, model, code, message, retryable, details) ==
    [request_id |-> request_id,
     text |-> "",
     provider |-> OrUnknown(provider),
     model |-> OrUnknown(model),
     latency_ms |-> 0,
     token_usage |-> TokenUsage(0, 0, 0),
     estimated_cost |-> 0,
     finish_reason |-> "error",
     error |-> NormalizedError(code, message, OrUnknown(provider), retryable, details)]

\* ChatResponseDTO.from_unified_response: the DTO carries the fields of the
\* UnifiedResponse under the same names
from_unified_response(response) == response

\* what orchestrator.ask can hand back for one call: a successful response
\* or a response carrying a normalized upstream error
AskSuccess(request_id, provider, model) ==
    [request_id |-> request_id,
     text |-> "Hi " \o provider \o ".\nBye.",
     provider |-> provider,
     model |-> model,
     latency_ms |-> 7,
     token_usage |-> TokenUsage(3, 4, 7),
     estimated_cost |-> 5,
     finish_reason |-> "stop",
     error |-> None]

AskError(request_id, provider, model) ==
    [request_id |-> request_id,
     text |-> "",
     provider |-> provider,
     model |-> model,
     latency_ms |-> 2,
     token_usage |-> TokenUsage(0, 0, 0),
     estimated_cost |-> 0,
     finish_reason |-> "error",
     error |-> NormalizedError("upstream_error", "boom", provider, FALSE, NoDetails)]

\* the response orchestrator.ask builds when the client call times out
AskTimeout(request_id, provider, model) ==
    [request_id |-> request_id,
     text |-> "",
     provider |-> provider,
     model |-> model,
     latency_ms |-> 2,
     token_usage |-> TokenUsage(0, 0, 0),
     estimated_cost |-> 0,
     finish_reason |-> "error",
     error |-> NormalizedError("timeout", "timed out", provider, TRUE, NoDetails)]

\* what the Provider Client's complete() does in one call
ClientOutcomes == {"returns", "raises_error", "raises_timeout"}

\* slip: only the client's timeout is caught, any other exception escapes
ask_catches_timeout_only(client, request_id, provider, model) ==
    IF client = "returns" THEN Returns(AskSuccess(request_id, provider, model))
    ELSE IF client = "raises_timeout" THEN Returns(AskTimeout(request_id, provider, model))
    ELSE RaisesToCaller("ProviderError")

\* CortexOrchestrator.ask: one client call, every exception of which is
\* turned into the error of the response
ask(client, request_id, provider, model) ==
    IF client = "returns" THEN Returns(AskSuccess(request_id, provider, model))
    ELSE IF client = "raises_timeout" THEN Returns(AskTimeout(request_id, provider, model))
    ELSE Returns(AskError(request_id, provider, model))

AskReturnKinds == {"success", "error"}

\* the request_id orchestrator.ask generates for the call of target k
AskRequestId(k) == "ask-" \o ToString(k)

AskResponse(kind, request_id, provider, model) ==
    IF kind = "success" THEN AskSuccess(request_id, provider, model)
    ELSE AskError(request_id, provider, model)

(***************************************************************************)
(* The requests.                                                           *)
(***************************************************************************)
\* provider strings as a caller may send them, by target position
RawProviders == << " OpenAI", "Gemini ", " DeepSeek ", "GROK" >>

\* the targets a modelled compare request can carry at (0-based) position k:
\* a well-formed one whose provider needs trimming and lower-casing, one
\* with no model, one with a blank provider
TargetChoices(k) ==
    { [provider |-> RawProviders[k + 1], model |-> "m" \o ToString(k) \o " "],
      [provider |-> RawProviders[k + 1], model |-> ""],
      [provider |-> "  ", model |-> "x"] }

\* timeout_s: Optional[float]; None is held as 0, which the truthiness test
\* of _run_compare_target treats like None
TimeoutChoices == {0, 30}

CompareRequests ==
    UNION { { [targets |-> ts, timeout_s |-> t, prompt |-> "p"] :
                ts \in { f \in [1..n -> UNION {TargetChoices(k) : k \in 0..(n - 1)}] :
                           \A k \in 1..n : f[k] \in TargetChoices(k - 1) },
                t \in TimeoutChoices } : n \in 2..MaxTargets }

ChatRequests ==
    [prompt : {"debug it", "a poem"},
     provider : {"", " Grok "},
     model : {"", "m1"},
     routing : {None, [smart_mode |-> FALSE, research_mode |-> FALSE]}]

(***************************************************************************)
(* The state of one streaming request.                                     *)
(***************************************************************************)
VARIABLES
    mode,               \* "chat" or "compare": the endpoint that was called
    request,            \* the validated request body
    tracker,            \* the counters of the session's TokenTracker
    fed,                \* what update() was called with since the last reset()
    sessions,           \* web_server.sessions: session id -> the session object stored
    heap,               \* the session objects created so far, by object number
    workers,            \* per server thread: the request it handles and its locals
    served,             \* how many requests the web server has taken
    optimizer,          \* the last optimize_prompt run: its calls and its sleeps
    returned,           \* what a directly called function returned, None before
    pc,                 \* where event_stream() is suspended
    events,             \* the NDJSON events yielded so far
    i,                  \* the index the for loop over request.targets is at
    ordered_responses,  \* compare: the DTO of each target, None until set
    tasks,              \* compare: the indices of the created tasks, in list order
    task,               \* per target index: the state and result of its asyncio task
    thread,             \* per target index: the worker thread running orchestrator.ask
    joined,             \* as_completed(tasks) has registered its callbacks
    doneQueue,          \* as_completed's queue of finished tasks
    yielded,            \* how many tasks the as_completed loop has consumed
    idx,                \* the index of the response being streamed
    dto,                \* the response being streamed
    lines,              \* the lines of the current response still to be yielded
    resolved,           \* the indices of the finished tasks, in the order they finished
    saved               \* the rows save_chat has written

\* the variables by the component that writes them
trackerVars == << tracker, fed >>
webVars == << sessions, heap, workers, served >>
optimizerVars == << optimizer >>
streamVars == << events, i, ordered_responses, tasks, task, thread, joined, doneQueue,
                yielded, idx, dto, lines, resolved, saved >>

vars == << mode, request, returned, pc, trackerVars, webVars, optimizerVars, streamVars >>

\* the components a behaviour does not exercise stay as they start
WebIdle == sessions = << >> /\ heap = << >> /\ workers = << >> /\ served = 0
OptimizerIdle == optimizer = None

(***************************************************************************)
(* Routing of a chat request.                                              *)
(***************************************************************************)
DEFAULT_MODELS ==
    [openai |-> "gpt-4o", gemini |-> "gemini-2.5-flash",
     deepseek |-> "deepseek-chat", grok |-> "grok-4-latest"]

\* os.environ, which the call is made under: no variable set unless the
\* call carries an environment
environ == IF "environ" \in DOMAIN request THEN request.environ ELSE << >>

\* os.getenv(key, default): the value of the variable if it is set, be it
\* the empty string, else default
getenv(key, default) == IF key \in DOMAIN environ THEN environ[key] ELSE default

UpperOf ==
    [c \in { CharAt(LowerLetters, k) : k \in 1..26 } |->
        CharAt(UpperLetters, CHOOSE k \in 1..26 : CharAt(LowerLetters, k) = c)]

\* str.upper(), of the ASCII names it is used on
RECURSIVE Upper(_)
Upper(s) ==
    IF s = "" THEN ""
    ELSE (IF CharAt(s, 1) \in DOMAIN UpperOf THEN UpperOf[CharAt(s, 1)] ELSE CharAt(s, 1))
             \o Upper(SubSeq(s, 2, Len(s)))

\* env_key = f"DEFAULT_{provider.upper()}_MODEL";
\* os.getenv(env_key, DEFAULT_MODELS[provider])
_default_model_for_provider(provider) ==
    getenv("DEFAULT_" \o Upper(provider) \o "_MODEL", DEFAULT_MODELS[provider])

code_signals ==
    { "code", "bug", "debug", "stack trace", "python", "javascript", "typescript",
      "sql", "api", "refactor", "algorithm", "function", "class ", "exception" }

deep_reasoning_signals ==
    { "analyze", "analysis", "tradeoff", "architecture", "design", "compare",
      "step by step", "explain why", "root cause", "research", "cite" }

creative_signals == { "poem", "story", "creative", "brainstorm", "tagline", "tweet" }

\* slip: the research gate is tested before the smart-mode gate
_pick_smart_provider_research_first(prompt, smart_mode, research_mode) ==
    LET text == Lower(prompt)
    IN IF research_mode THEN "openai"
       ELSE IF ~smart_mode THEN "gemini"
       ELSE IF \E signal \in code_signals : Contains(text, signal) THEN "deepseek"
       ELSE IF \/ \E signal \in deep_reasoning_signals : Contains(text, signal)
               \/ Len(text) > LengthThreshold
            THEN "openai"
       ELSE IF \E signal \in creative_signals : Contains(text, signal) THEN "grok"
       ELSE "gemini"

\* slip: the reasoning gate is tested before the code gate
_pick_smart_provider_reasoning_first(prompt, smart_mode, research_mode) ==
    LET text == Lower(prompt)
    IN IF ~smart_mode THEN "gemini"
       ELSE IF research_mode THEN "openai"
       ELSE IF \/ \E signal \in deep_reasoning_signals : Contains(text, signal)
               \/ Len(text) > LengthThreshold
            THEN "openai"
       ELSE IF \E signal \in code_signals : Contains(text, signal) THEN "deepseek"
       ELSE IF \E signal \in creative_signals : Contains(text, signal) THEN "grok"
       ELSE "gemini"

\* slip: the length test is  >=  where the code has  >
_pick_smart_provider_at_threshold(prompt, smart_mode, research_mode) ==
    LET text == Lower(prompt)
    IN IF ~smart_mode THEN "gemini"
       ELSE IF research_mode THEN "openai"
       ELSE IF \E signal \in code_signals : Contains(text, signal) THEN "deepseek"
       ELSE IF \/ \E signal \in deep_reasoning_signals : Contains(text, signal)
               \/ Len(text) >= LengthThreshold
            THEN "openai"
       ELSE IF \E signal \in creative_signals : Contains(text, signal) THEN "grok"
       ELSE "gemini"

_pick_smart_provider(prompt, smart_mode, research_mode) ==
    LET text == Lower(prompt)
    IN IF ~smart_mode THEN "gemini"
       ELSE IF research_mode THEN "openai"
       ELSE IF \E signal \in code_signals : Contains(text, signal) THEN "deepseek"
       ELSE IF \/ \E signal \in deep_reasoning_signals : Contains(text, signal)
               \/ Len(text) > LengthThreshold
            THEN "openai"
       ELSE IF \E signal \in creative_signals : Contains(text, signal) THEN "grok"
       ELSE "gemini"

\* slip: routing hints in the request override the provider it names
_resolve_chat_target_hints_first(req) ==
    LET manual_provider == Lower(Strip(req.provider))
        manual_model == Strip(req.model)
        smart_mode == IF req.routing = None THEN TRUE ELSE req.routing.smart_mode
        research_mode == IF req.routing = None THEN FALSE ELSE req.routing.research_mode
        provider == _pick_smart_provider(req.prompt, smart_mode, research_mode)
    IN IF manual_provider # "" /\ req.routing = None
       THEN << manual_provider,
               IF manual_model # "" THEN manual_model
               ELSE _default_model_for_provider(manual_provider) >>
       ELSE << provider, _default_model_for_provider(provider) >>

_resolve_chat_target(req) ==
    LET manual_provider == Lower(Strip(req.provider))
        manual_model == Strip(req.model)
        smart_mode == IF req.routing = None THEN TRUE ELSE req.routing.smart_mode
        research_mode == IF req.routing = None THEN FALSE ELSE req.routing.research_mode
        provider == _pick_smart_provider(req.prompt, smart_mode, research_mode)
    IN IF manual_provider # ""
       THEN << manual_provider,
               IF manual_model # "" THEN manual_model
               ELSE _default_model_for_provider(manual_provider) >>
       ELSE << provider, _default_model_for_provider(provider) >>

N == IF mode = "compare" THEN Len(request.targets) ELSE 0

Indices == 0..(N - 1)

NoTask == [state |-> "none", result |-> None]

\* the endpoints: the two streaming ones and the two that answer at once
StreamModes == {"chat", "compare"}
HandlerModes == {"chat_handler", "compare_handler"}

Init ==
    /\ mode \in StreamModes \cup HandlerModes
    /\ request \in (IF mode \in {"chat", "chat_handler"} THEN ChatRequests
                    ELSE CompareRequests)
    /\ tracker = TokenTracker
    /\ fed = << >>
    /\ WebIdle
    /\ OptimizerIdle
    /\ returned = None
    /\ pc = "start"
    /\ events = << >>
    /\ i = 0
    /\ ordered_responses = << >>
    /\ tasks = << >>
    /\ task = [t \in Indices |-> NoTask]
    /\ thread = [t \in Indices |-> "none"]
    /\ joined = FALSE
    /\ doneQueue = << >>
    /\ yielded = 0
    /\ idx = 0
    /\ dto = None
    /\ lines = << >>
    /\ resolved = << >>
    /\ saved = << >>

(***************************************************************************)
(* Stream events.                                                          *)
(***************************************************************************)
Emit(event) == events' = Append(events, event)

\* the start event; its research metadata comes from the web-research
\* helper and is left out
StartEvent ==
    IF mode = "compare"
    THEN [type |-> "start", mode |-> "compare", target_count |-> Len(request.targets)]
    ELSE [type |-> "start", mode |-> "chat",
          provider |-> _resolve_chat_target(request)[1],
          model |-> _resolve_chat_target(request)[2]]

ResponseStartEvent(index, d) ==
    [type |-> "response_start", index |-> index, provider |-> d.provider, model |-> d.model]

\* slip: the line event of chat_stream, which always carries index 0
LineEventIndexZero(index, line) == [type |-> "line", index |-> 0, text |-> line]

\* slip: the line is sent without its trailing whitespace and terminator
LineEventStripped(index, line) == [type |-> "line", index |-> index, text |-> RStrip(line)]

LineEvent(index, line) == [type |-> "line", index |-> index, text |-> line]

\* slip: response_done is tagged with the for loop's variable i, not idx
ResponseDoneEventLoopIndex(index, d) ==
    [type |-> "response_done", index |-> i, response |-> d]

ResponseDoneEvent(index, d) ==
    [type |-> "response_done", index |-> index, response |-> d]

ErrorEvent == [type |-> "error", message |-> "exc"]

\* slip: the text of the response is streamed, an error is not turned into a line
StreamTextOnly(d) == d.text

\* stream_text = dto.text or "";  if not stream_text and dto.error: "Error: ..."
StreamText(d) ==
    IF d.text # "" THEN d.text
    ELSE IF d.error # None THEN "Error: " \o d.error.message
    ELSE ""

(***************************************************************************)
(* compare_stream: the pass over request.targets.                          *)
(***************************************************************************)
TargetProvider(k) == Lower(Strip(request.targets[k + 1].provider))
TargetModel(k) == Strip(request.targets[k + 1].model)

\* slip: only the provider is tested
IsValidTargetProviderOnly(k) == TargetProvider(k) # ""

\* not (not provider or not model)
IsValidTarget(k) == TargetProvider(k) # "" /\ TargetModel(k) # ""

\* the first index from k on whose target is rejected, N when there is none
RECURSIVE NextBad(_)
NextBad(k) == IF k >= N \/ ~IsValidTarget(k) THEN k ELSE NextBad(k + 1)

\* the indices k..(j - 1) as a list
Range(k, j) == [m \in 1..(j - k) |-> k + m - 1]

\* asyncio.create_task(_run_compare_target(index=k, ...)): the task runs
\* asyncio.to_thread(orchestrator.ask, ...)
CreateTasks(k, j) ==
    /\ tasks' = tasks \o Range(k, j)
    /\ task' = [t \in Indices |->
                  IF t >= k /\ t < j THEN [state |-> "pending", result |-> None]
                  ELSE task[t]]
    /\ thread' = [t \in Indices |-> IF t >= k /\ t < j THEN "running" ELSE thread[t]]

BadRequestResponse(k) ==
    _make_error_response(uuid4("bad", k), OrUnknown(TargetProvider(k)),
        OrUnknown(TargetModel(k)), "bad_request",
        "Invalid model config: provider='" \o TargetProvider(k)
            \o "', model='" \o TargetModel(k) \o "'",
        FALSE, NoDetails)

\* yield start; ordered_responses = [None] * len(request.targets); tasks = []
CompareStart ==
    /\ mode = "compare" /\ pc = "start"
    /\ Emit(StartEvent)
    /\ ordered_responses' = [k \in 1..N |-> None]
    /\ tasks' = << >>
    /\ i' = 0
    /\ pc' = "scan"
    /\ UNCHANGED << mode, request, trackerVars, webVars, optimizerVars, returned, task, thread, joined, doneQueue, yielded, idx, dto,
                    lines, resolved, saved >>

\* the for loop runs without suspending over the well-formed targets, creating
\* a task for each, up to the next rejected target, whose response_start it yields
ScanToBad ==
    /\ mode = "compare" /\ pc = "scan"
    /\ NextBad(i) < N
    /\ LET j == NextBad(i)
           bad_dto == from_unified_response(BadRequestResponse(j))
       IN /\ CreateTasks(i, j)
          /\ ordered_responses' = [ordered_responses EXCEPT ![j + 1] = bad_dto]
          /\ Emit(ResponseStartEvent(j, bad_dto))
          /\ i' = j
          /\ idx' = j
          /\ dto' = bad_dto
          /\ lines' = _iter_stream_lines(StreamText(bad_dto))
          /\ pc' = "bad_lines"
    /\ UNCHANGED << mode, request, trackerVars, webVars, optimizerVars, returned, joined, doneQueue, yielded, resolved, saved >>

\* yield line; await asyncio.sleep(STREAM_LINE_DELAY_S)
BadLine ==
    /\ mode = "compare" /\ pc = "bad_lines"
    /\ lines # << >>
    /\ Emit(LineEvent(i, Head(lines)))
    /\ lines' = Tail(lines)
    /\ UNCHANGED << mode, request, trackerVars, webVars, optimizerVars, returned, pc, i, ordered_responses, tasks, task, thread, joined,
                    doneQueue, yielded, idx, dto, resolved, saved >>

\* yield response_done; continue
BadDone ==
    /\ mode = "compare" /\ pc = "bad_lines"
    /\ lines = << >>
    /\ Emit(ResponseDoneEvent(i, dto))
    /\ i' = i + 1
    /\ pc' = "scan"
    /\ UNCHANGED << mode, request, trackerVars, webVars, optimizerVars, returned, ordered_responses, tasks, task, thread, joined,
                    doneQueue, yielded, idx, dto, lines, resolved, saved >>

\* the orders in which the members of S can be listed
Orders(S) ==
    { q \in [1..Cardinality(S) -> S] :
        \A a, b \in 1..Cardinality(S) : a # b => q[a] # q[b] }

DoneTasks == { t \in Indices : task[t].state = "done" }

\* asyncio.as_completed(tasks) keeps the tasks in a set and registers a
\* completion callback on each: the tasks that have already finished are
\* queued in the iteration order of that set
AsCompletedOrders == Orders(DoneTasks)

\* the rest of the for loop, then  for task in asyncio.as_completed(tasks)
ScanToJoin ==
    /\ mode = "compare" /\ pc = "scan"
    /\ NextBad(i) = N
    /\ CreateTasks(i, N)
    /\ i' = N
    /\ joined' = TRUE
    /\ doneQueue' \in AsCompletedOrders
    /\ pc' = "wait"
    /\ UNCHANGED << mode, request, trackerVars, webVars, optimizerVars, returned, events, ordered_responses, yielded, idx, dto, lines,
                    resolved, saved >>

(***************************************************************************)
(* _run_compare_target: one asyncio task per well-formed target.           *)
(***************************************************************************)
\* the task of target t finishes with this result; as_completed's callback
\* queues it once the callbacks are registered
Resolve(t, result) ==
    /\ task' = [task EXCEPT ![t] = [state |-> "done", result |-> result]]
    /\ resolved' = Append(resolved, t)
    /\ doneQueue' = IF joined THEN Append(doneQueue, t) ELSE doneQueue

\* slip: the task reports its place in the completion order as its index
TaskReturnInCompletionOrder(index, response) ==
    [kind |-> "value", index |-> Len(resolved), response |-> response]

\* return index, response
TaskReturn(index, response) == [kind |-> "value", index |-> index, response |-> response]

\* an exception other than asyncio.TimeoutError leaves the task
TaskException == [kind |-> "exc"]

\* slip: the timeout response is built with the default retryable=False
TimeoutResponseNotRetryable(t) ==
    _make_error_response(uuid4("timeout", t), TargetProvider(t), TargetModel(t), "timeout",
        "Request timed out after " \o FormatFloat(request.timeout_s) \o "s",
        FALSE, { << "timeout_seconds", request.timeout_s >> })

TimeoutResponse(t) ==
    _make_error_response(uuid4("timeout", t), TargetProvider(t), TargetModel(t), "timeout",
        "Request timed out after " \o FormatFloat(request.timeout_s) \o "s",
        TRUE, { << "timeout_seconds", request.timeout_s >> })

\* a TokenTracker object that several calls would hold at once
SharedTracker == [is_none |-> FALSE]

\* slip: every target's call is handed the same tracker
AskArgumentsSharedTracker(t) ==
    [model_type |-> TargetProvider(t), model_name |-> TargetModel(t),
     token_tracker |-> SharedTracker]

\* the keyword arguments of _run_compare_target's orchestrator.ask call for
\* target t, the ones the response depends on and the tracker it may write to
AskArguments(t) ==
    [model_type |-> TargetProvider(t), model_name |-> TargetModel(t),
     token_tracker |-> None]

\* the tracker argument of compare()'s orchestrator.compare call
CompareArguments == [timeout_s |-> request.timeout_s, token_tracker |-> None]

\* slip: the response of the call is delivered although the task timed out
AskReturnsLateDelivered(t, kind) ==
    /\ thread[t] = "running"
    /\ thread' = [thread EXCEPT ![t] = "finished"]
    /\ Resolve(t, TaskReturn(t,
           AskResponse(kind, AskRequestId(t), AskArguments(t).model_type,
                    AskArguments(t).model_name)))
    /\ UNCHANGED << mode, request, trackerVars, webVars, optimizerVars, returned, pc, events, i, ordered_responses, tasks,
                    joined, yielded, idx, dto, lines, saved >>

\* the worker thread's orchestrator.ask returns; a task that has already
\* timed out has stopped waiting and the response is dropped
AskReturns(t, kind) ==
    /\ thread[t] = "running"
    /\ thread' = [thread EXCEPT ![t] = "finished"]
    /\ IF task[t].state = "pending"
       THEN Resolve(t, TaskReturn(t,
                AskResponse(kind, AskRequestId(t), AskArguments(t).model_type,
                    AskArguments(t).model_name)))
       ELSE UNCHANGED << task, resolved, doneQueue >>
    /\ UNCHANGED << mode, request, trackerVars, webVars, optimizerVars, returned, pc, events, i, ordered_responses, tasks, joined,
                    yielded, idx, dto, lines, saved >>

\* the awaited call raises: _run_compare_target catches asyncio.TimeoutError only
AskRaises(t) ==
    /\ thread[t] = "running"
    /\ thread' = [thread EXCEPT ![t] = "finished"]
    /\ IF task[t].state = "pending"
       THEN Resolve(t, TaskException)
       ELSE UNCHANGED << task, resolved, doneQueue >>
    /\ UNCHANGED << mode, request, trackerVars, webVars, optimizerVars, returned, pc, events, i, ordered_responses, tasks, joined,
                    yielded, idx, dto, lines, saved >>

\* asyncio.wait_for gives up after timeout_s; the worker thread runs on
TimeoutExpires(t) ==
    /\ request.timeout_s # 0
    /\ task[t].state = "pending"
    /\ Resolve(t, TaskReturn(t, TimeoutResponse(t)))
    /\ UNCHANGED << mode, request, trackerVars, webVars, optimizerVars, returned, pc, events, i, ordered_responses, tasks, thread,
                    joined, yielded, idx, dto, lines, saved >>

(***************************************************************************)
(* compare_stream: the loop over asyncio.as_completed(tasks).              *)
(***************************************************************************)
\* idx, response = await task; ordered_responses[idx] = dto; yield response_start
NextResponse ==
    /\ mode = "compare" /\ pc = "wait"
    /\ yielded < Len(tasks)
    /\ doneQueue # << >>
    /\ task[Head(doneQueue)].result.kind = "value"
    /\ LET result == task[Head(doneQueue)].result
           d == from_unified_response(result.response)
       IN /\ idx' = result.index
          /\ dto' = d
          /\ ordered_responses' = [ordered_responses EXCEPT ![result.index + 1] = d]
          /\ Emit(ResponseStartEvent(result.index, d))
          /\ lines' = _iter_stream_lines(StreamText(d))
    /\ doneQueue' = Tail(doneQueue)
    /\ yielded' = yielded + 1
    /\ pc' = "lines"
    /\ UNCHANGED << mode, request, trackerVars, webVars, optimizerVars, returned, i, tasks, task, thread, joined, resolved, saved >>

\* slip: the exception is caught inside the loop, which reports it and goes on
NextRaisesAndContinues ==
    /\ mode = "compare" /\ pc = "wait"
    /\ yielded < Len(tasks)
    /\ doneQueue # << >>
    /\ task[Head(doneQueue)].result.kind = "exc"
    /\ Emit(ErrorEvent)
    /\ doneQueue' = Tail(doneQueue)
    /\ yielded' = yielded + 1
    /\ UNCHANGED << mode, request, trackerVars, webVars, optimizerVars, returned, pc, i, ordered_responses, tasks, task, thread, joined,
                    idx, dto, lines, resolved, saved >>

\* await task re-raises the task's exception: except Exception yields error
NextRaises ==
    /\ mode = "compare" /\ pc = "wait"
    /\ yielded < Len(tasks)
    /\ doneQueue # << >>
    /\ task[Head(doneQueue)].result.kind = "exc"
    /\ Emit(ErrorEvent)
    /\ doneQueue' = Tail(doneQueue)
    /\ pc' = "end"
    /\ UNCHANGED << mode, request, trackerVars, webVars, optimizerVars, returned, i, ordered_responses, tasks, task, thread, joined,
                    yielded, idx, dto, lines, resolved, saved >>

\* yield line; await asyncio.sleep(STREAM_LINE_DELAY_S)
StreamLine ==
    /\ mode = "compare" /\ pc = "lines"
    /\ lines # << >>
    /\ Emit(LineEvent(idx, Head(lines)))
    /\ lines' = Tail(lines)
    /\ UNCHANGED << mode, request, trackerVars, webVars, optimizerVars, returned, pc, i, ordered_responses, tasks, task, thread, joined,
                    doneQueue, yielded, idx, dto, resolved, saved >>

\* yield response_done
ResponseDone ==
    /\ mode = "compare" /\ pc = "lines"
    /\ lines = << >>
    /\ Emit(ResponseDoneEvent(idx, dto))
    /\ pc' = "wait"
    /\ UNCHANGED << mode, request, trackerVars, webVars, optimizerVars, returned, i, ordered_responses, tasks, task, thread, joined,
                    doneQueue, yielded, idx, dto, lines, resolved, saved >>

\* slip: the loop is left after the first task it yields
FirstYielded == yielded >= Min(1, Len(tasks))

\* the as_completed loop ends when it has yielded every task
AllYielded == yielded = Len(tasks)

\* [r for r in ordered_responses if r is not None]
NotNone(rs) == SelectSeq(rs, LAMBDA r : r # None)

RECURSIVE Sum(_)
Sum(q) == IF q = << >> THEN 0 ELSE Head(q) + Sum(Tail(q))

\* sum(1 for r in dtos if r.error is None)
success_count(dtos) == Len(SelectSeq(dtos, LAMBDA r : r.error = None))

\* slip: only the errors that are not retryable are counted
ErrorCountNotRetryable(dtos) ==
    Len(SelectSeq(dtos, LAMBDA r : r.error # None /\ ~r.error.retryable))

\* sum(1 for r in dtos if r.error is not None)
error_count(dtos) == Len(SelectSeq(dtos, LAMBDA r : r.error # None))

\* slip: total_tokens adds up the prompt tokens only
compare_payload_prompt_tokens(dtos) ==
    [request_group_id |-> uuid4("group", 0),
     responses |-> dtos,
     success_count |-> success_count(dtos),
     error_count |-> error_count(dtos),
     total_tokens |-> Sum([k \in 1..Len(dtos) |-> dtos[k].token_usage.prompt_tokens]),
     total_cost |-> Sum([k \in 1..Len(dtos) |-> dtos[k].estimated_cost])]

\* the aggregate; its timestamp is left out
compare_payload(dtos) ==
    [request_group_id |-> uuid4("group", 0),
     responses |-> dtos,
     success_count |-> success_count(dtos),
     error_count |-> error_count(dtos),
     total_tokens |-> Sum([k \in 1..Len(dtos) |-> dtos[k].token_usage.total_tokens]),
     total_cost |-> Sum([k \in 1..Len(dtos) |-> dtos[k].estimated_cost])]

DoneEvent ==
    IF mode = "compare"
    THEN [type |-> "done", mode |-> "compare",
          compare |-> compare_payload(NotNone(ordered_responses))]
    ELSE [type |-> "done", mode |-> "chat"]

\* the aggregate is built after the loop and yielded as done
CompareDone ==
    /\ mode = "compare" /\ pc = "wait"
    /\ AllYielded
    /\ Emit(DoneEvent)
    /\ pc' = "persist"
    /\ UNCHANGED << mode, request, trackerVars, webVars, optimizerVars, returned, i, ordered_responses, tasks, task, thread, joined,
                    doneQueue, yielded, idx, dto, lines, resolved, saved >>

\* the row save_chat writes for one response
SavedRow(d) ==
    [prompt |-> request.prompt, provider |-> d.provider, model |-> d.model,
     response |-> d.text,
     mode |-> IF mode \in {"chat", "chat_handler"} THEN "chat" ELSE "compare"]

\* slip: persistence without its own try, so that its failure reaches the
\* outer handler
PersistUnguarded(rows, ok) ==
    /\ pc = "persist"
    /\ saved' = IF ok THEN saved \o rows ELSE saved
    /\ events' = IF ok THEN events ELSE Append(events, ErrorEvent)
    /\ pc' = "end"
    /\ UNCHANGED << mode, request, trackerVars, webVars, optimizerVars, returned, i, ordered_responses, tasks, task, thread,
                    joined, doneQueue, yielded, idx, dto, lines, resolved >>

\* slip: no try around the persistence, so that its failure leaves the
\* handler as an exception and reaches the outer handler of a stream
PersistEscapes(rows, ok) ==
    /\ pc = "persist"
    /\ saved' = IF ok THEN saved \o rows ELSE saved
    /\ pc' = IF ok THEN "end" ELSE "raised"
    /\ returned' = IF ok \/ mode \in StreamModes THEN returned ELSE RaisesToCaller("exc")
    /\ events' = IF ok \/ mode \in HandlerModes THEN events ELSE Append(events, ErrorEvent)
    /\ UNCHANGED << mode, request, trackerVars, webVars, optimizerVars, i, ordered_responses, tasks, task, thread,
                    joined, doneQueue, yielded, idx, dto, lines, resolved >>

\* best-effort persistence: the import or a save_chat call may raise, which
\* the inner try swallows
Persist(rows, ok) ==
    /\ pc = "persist"
    /\ saved' = IF ok THEN saved \o rows ELSE saved
    /\ pc' = "end"
    /\ UNCHANGED << mode, request, trackerVars, webVars, optimizerVars, returned, events, i, ordered_responses, tasks, task, thread,
                    joined, doneQueue, yielded, idx, dto, lines, resolved >>

ComparePersist(ok) ==
    /\ mode = "compare"
    /\ LET dtos == NotNone(ordered_responses)
       IN Persist([k \in 1..Len(dtos) |-> SavedRow(dtos[k])], ok)

(***************************************************************************)
(* chat_stream.                                                            *)
(***************************************************************************)
ChatStart ==
    /\ mode = "chat" /\ pc = "start"
    /\ Emit(StartEvent)
    /\ pc' = "ask"
    /\ UNCHANGED << mode, request, trackerVars, webVars, optimizerVars, returned, i, ordered_responses, tasks, task, thread, joined,
                    doneQueue, yielded, idx, dto, lines, resolved, saved >>

\* response = await asyncio.to_thread(orchestrator.ask, ...); dto = ...
ChatAskReturns(kind) ==
    /\ mode = "chat" /\ pc = "ask"
    /\ LET target == _resolve_chat_target(request)
           d == from_unified_response(
                    AskResponse(kind, AskRequestId(0), target[1], target[2]))
       IN /\ dto' = d
          /\ lines' = _iter_stream_lines(StreamText(d))
    /\ pc' = "lines"
    /\ UNCHANGED << mode, request, trackerVars, webVars, optimizerVars, returned, events, i, ordered_responses, tasks, task, thread,
                    joined, doneQueue, yielded, idx, resolved, saved >>

\* the awaited call raises: except Exception yields error
ChatAskRaises ==
    /\ mode = "chat" /\ pc = "ask"
    /\ Emit(ErrorEvent)
    /\ pc' = "end"
    /\ UNCHANGED << mode, request, trackerVars, webVars, optimizerVars, returned, i, ordered_responses, tasks, task, thread, joined,
                    doneQueue, yielded, idx, dto, lines, resolved, saved >>

\* yield line (index 0); await asyncio.sleep(STREAM_LINE_DELAY_S)
ChatLine ==
    /\ mode = "chat" /\ pc = "lines"
    /\ lines # << >>
    /\ Emit(LineEvent(0, Head(lines)))
    /\ lines' = Tail(lines)
    /\ UNCHANGED << mode, request, trackerVars, webVars, optimizerVars, returned, pc, i, ordered_responses, tasks, task, thread, joined,
                    doneQueue, yielded, idx, dto, resolved, saved >>

ChatResponseDone ==
    /\ mode = "chat" /\ pc = "lines"
    /\ lines = << >>
    /\ Emit(ResponseDoneEvent(0, dto))
    /\ pc' = "done"
    /\ UNCHANGED << mode, request, trackerVars, webVars, optimizerVars, returned, i, ordered_responses, tasks, task, thread, joined,
                    doneQueue, yielded, idx, dto, lines, resolved, saved >>

ChatDone ==
    /\ mode = "chat" /\ pc = "done"
    /\ Emit(DoneEvent)
    /\ pc' = "persist"
    /\ UNCHANGED << mode, request, trackerVars, webVars, optimizerVars, returned, i, ordered_responses, tasks, task, thread, joined,
                    doneQueue, yielded, idx, dto, lines, resolved, saved >>

ChatPersist(ok) ==
    /\ mode = "chat"
    /\ Persist(<< SavedRow(dto) >>, ok)

(***************************************************************************)
(* chat and compare, the endpoints that answer with one DTO.               *)
(***************************************************************************)
\* response = await asyncio.to_thread(orchestrator.ask, ...); dto = ...
ChatHandlerAskReturns(kind) ==
    /\ mode = "chat_handler" /\ pc = "start"
    /\ LET target == _resolve_chat_target(request)
       IN dto' = from_unified_response(
                    AskResponse(kind, AskRequestId(0), target[1], target[2]))
    /\ pc' = "persist"
    /\ UNCHANGED << mode, request, trackerVars, webVars, optimizerVars, returned, events, i, ordered_responses, tasks, task, thread,
                    joined, doneQueue, yielded, idx, lines, resolved, saved >>

\* the response CortexOrchestrator.compare gives for target k: the response
\* of its call, or bad_request for a target without provider or model
CompareTargetResponse(k, kind) ==
    IF IsValidTarget(k)
    THEN AskResponse(kind, AskRequestId(k), TargetProvider(k), TargetModel(k))
    ELSE BadRequestResponse(k)

\* response = await asyncio.to_thread(orchestrator.compare, ...);
\* dto = CompareResponseDTO.from_multi_unified_response(response)
CompareHandlerReturns(kinds) ==
    /\ mode = "compare_handler" /\ pc = "start"
    /\ dto' = compare_payload([k \in 1..Len(request.targets) |->
                                 CompareTargetResponse(k - 1, kinds[k])])
    /\ pc' = "persist"
    /\ UNCHANGED << mode, request, trackerVars, webVars, optimizerVars, returned, events, i, ordered_responses, tasks, task, thread,
                    joined, doneQueue, yielded, idx, lines, resolved, saved >>

\* the awaited orchestrator call raises: the exception leaves the handler
HandlerCallRaises ==
    /\ mode \in HandlerModes /\ pc = "start"
    /\ returned' = RaisesToCaller("exc")
    /\ pc' = "raised"
    /\ UNCHANGED << mode, request, trackerVars, webVars, optimizerVars, events, i, ordered_responses, tasks, task, thread,
                    joined, doneQueue, yielded, idx, dto, lines, resolved, saved >>

\* try: save_chat(...)  except Exception: pass
ChatHandlerPersist(ok) ==
    /\ mode = "chat_handler"
    /\ Persist(<< SavedRow(dto) >>, ok)

\* try: for r in dto.responses: save_chat(...)  except Exception: pass
CompareHandlerPersist(ok) ==
    /\ mode = "compare_handler"
    /\ Persist([k \in 1..Len(dto.responses) |-> SavedRow(dto.responses[k])], ok)

\* return dto
HandlerReturn ==
    /\ mode \in HandlerModes /\ pc = "end"
    /\ returned' = Returns(dto)
    /\ pc' = "returned"
    /\ UNCHANGED << mode, request, trackerVars, webVars, optimizerVars, events, i, ordered_responses, tasks, task, thread,
                    joined, doneQueue, yielded, idx, dto, lines, resolved, saved >>

(***************************************************************************)
(* The specification.                                                      *)
(***************************************************************************)
Next ==
    \/ CompareStart
    \/ ScanToBad
    \/ BadLine
    \/ BadDone
    \/ ScanToJoin
    \/ \E t \in Indices, kind \in AskReturnKinds : AskReturns(t, kind)
    \/ \E t \in Indices : AskRaises(t)
    \/ \E t \in Indices : TimeoutExpires(t)
    \/ NextResponse
    \/ NextRaises
    \/ StreamLine
    \/ ResponseDone
    \/ CompareDone
    \/ \E ok \in BOOLEAN : ComparePersist(ok)
    \/ ChatStart
    \/ \E kind \in AskReturnKinds : ChatAskReturns(kind)
    \/ ChatAskRaises
    \/ ChatLine
    \/ ChatResponseDone
    \/ ChatDone
    \/ \E ok \in BOOLEAN : ChatPersist(ok)
    \/ \E kind \in AskReturnKinds : ChatHandlerAskReturns(kind)
    \/ /\ mode = "compare_handler"
       /\ \E kinds \in [1..Len(request.targets) -> AskReturnKinds] :
              CompareHandlerReturns(kinds)
    \/ HandlerCallRaises
    \/ \E ok \in BOOLEAN : ChatHandlerPersist(ok)
    \/ \E ok \in BOOLEAN : CompareHandlerPersist(ok)
    \/ HandlerReturn

Spec == Init /\ [][Next]_vars

TypeOK ==
    /\ mode \in StreamModes \cup HandlerModes
    /\ pc \in {"start", "scan", "bad_lines", "wait", "lines", "done", "persist", "ask", "end",
              "raised", "returned"}
    /\ yielded <= Len(tasks)

(***************************************************************************)
(* The functions called on their own.  One behaviour is one call: request  *)
(* holds the arguments, returned the value handed back.                    *)
(***************************************************************************)
\* s followed by as many "." as bring it to n characters
Pad(s, n) == s \o Repeat(".", n - Len(s))

\* prompts with and without keywords of each gate, in mixed case; "classic"
\* holds "class" but not the signal "class "
PromptStems ==
    { "Hello there", "Fix this BUG", "Analyze it", "Write a Poem",
      "Debug and analyze a poem", "Analyze a story", "A classic tale",
      DottedCapitalI \o "stanbul", "A poem from " \o DottedCapitalI \o "stanbul" }

\* the lengths the stems are padded to, around the threshold
PromptLengths ==
    { LengthThreshold - 1, LengthThreshold, LengthThreshold + 1,
      LengthThreshold + MaxOver }

Prompts ==
    {""} \cup PromptStems \cup { Pad(stem, n) : stem \in PromptStems, n \in PromptLengths }

\* the arguments of  _pick_smart_provider(prompt, smart_mode=, research_mode=)
PickCalls == [prompt : Prompts, smart_mode : BOOLEAN, research_mode : BOOLEAN]

\* the environments a call is made under: no override of a default model,
\* one set to a model name, one set to the empty string
Environs ==
    { << >>, [DEFAULT_GROK_MODEL |-> "grok-3"], [DEFAULT_GEMINI_MODEL |-> ""] }

\* the requests handed to _resolve_chat_target: provider and model absent
\* (held as ""), blank, or given with and without surrounding whitespace
ResolveCalls ==
    [prompt : {"debug it", "a poem"},
     provider : {"", "  ", " OpenAI", "Gemini ", " DeepSeek ", "GROK", "grok"},
     model : {"", " ", "m1", " m1 "},
     routing : {None, [smart_mode |-> FALSE, research_mode |-> FALSE],
                [smart_mode |-> TRUE, research_mode |-> TRUE]},
     environ : Environs]

\* the calls of orchestrator.ask, by what the client does
AskCalls == [client : ClientOutcomes, provider : {"demo", "openai"}, model : {"x"}]

\* the texts handed to _iter_stream_lines: one block of every length up to
\* MaxTextLen, bare or ended by a line terminator, and texts of several lines
LineTerminators == {"", "\n", "\r\n"}

SplitCalls ==
    { [text |-> Repeat("a", n) \o term] : n \in 0..MaxTextLen, term \in LineTerminators }
    \cup { [text |-> "ab\ncd"], [text |-> "ab\n\ncd\n"], [text |-> "\n\n"],
           [text |-> "ab\r\ncd\r\n"], [text |-> "a\rb\fc"], [text |-> "\r\n\n\rx"] }

\* the request bodies POSTed to /v1/compare and /v1/compare/stream: any number
\* of well-formed targets, with or without a context object
CompareBodies ==
    [endpoint : {"compare", "compare_stream"},
     targets : { [k \in 1..n |-> [provider |-> "openai", model |-> "m1"]] :
                   n \in 0..(MAX_COMPARE_TARGETS + MaxExtraTargets) },
     context : {None, [session_id |-> None, conversation_history |-> None]}]

InitCalls ==
    /\ mode \in {"pick", "resolve", "ask", "split", "boundary"}
    /\ request \in (CASE mode = "pick" -> PickCalls
                      [] mode = "resolve" -> ResolveCalls
                      [] mode = "ask" -> AskCalls
                      [] mode = "split" -> SplitCalls
                      [] mode = "boundary" -> CompareBodies)
    /\ tracker = TokenTracker
    /\ fed = << >>
    /\ WebIdle
    /\ OptimizerIdle
    /\ returned = None
    /\ pc = "call"
    /\ events = << >>
    /\ i = 0
    /\ ordered_responses = << >>
    /\ tasks = << >>
    /\ task = [t \in Indices |-> NoTask]
    /\ thread = [t \in Indices |-> "none"]
    /\ joined = FALSE
    /\ doneQueue = << >>
    /\ yielded = 0
    /\ idx = 0
    /\ dto = None
    /\ lines = << >>
    /\ resolved = << >>
    /\ saved = << >>

\* the call returns value
Return(value) ==
    /\ pc = "call"
    /\ returned' = value
    /\ pc' = "returned"
    /\ UNCHANGED << mode, request, trackerVars, webVars, optimizerVars, events, i, ordered_responses, tasks, task, thread,
                    joined, doneQueue, yielded, idx, dto, lines, resolved, saved >>

CallPickSmartProvider ==
    /\ mode = "pick"
    /\ Return(_pick_smart_provider(request.prompt, request.smart_mode,
                                   request.research_mode))

CallResolveChatTarget ==
    /\ mode = "resolve"
    /\ Return(_resolve_chat_target(request))

CallAsk ==
    /\ mode = "ask"
    /\ Return(ask(request.client, AskRequestId(0), request.provider, request.model))

CallIterStreamLines ==
    /\ mode = "split"
    /\ Return(_iter_stream_lines(request.text))

\* raise HTTPException(status_code=..., detail=...)
HTTPException(status_code, detail) ==
    [type |-> "HTTPException", status_code |-> status_code, detail |-> detail]

\* what FastAPI raises, before the handler runs, for a body the request
\* model does not accept
RequestValidationError == [type |-> "RequestValidationError"]

\* CompareRequest.targets: Field(..., min_length=2, max_length=4)
CompareRequestAccepts(body) == Len(body.targets) >= 2 /\ Len(body.targets) <= 4

\* the two checks that open compare() and compare_stream(): the exception
\* raised, None when the handler goes on
BoundaryChecks(body) ==
    IF Len(body.targets) > MAX_COMPARE_TARGETS
    THEN HTTPException(400, "Maximum 4 targets allowed")
    ELSE IF body.context # None /\ Len(body.targets) > 2
    THEN HTTPException(400, "Context not allowed with more than 2 targets")
    ELSE None

\* the body is turned down: by the request model, or by the handler's checks
CallCompareRejected ==
    /\ mode = "boundary"
    /\ ~CompareRequestAccepts(request) \/ BoundaryChecks(request) # None
    /\ Return(RaisesToCaller(IF ~CompareRequestAccepts(request)
                             THEN RequestValidationError
                             ELSE BoundaryChecks(request)))

\* the body passes: the handler goes on to its calls or to its stream
CallCompareAccepted ==
    /\ mode = "boundary"
    /\ pc = "call"
    /\ CompareRequestAccepts(request)
    /\ BoundaryChecks(request) = None
    /\ pc' = "accepted"
    /\ UNCHANGED << mode, request, trackerVars, webVars, optimizerVars, returned, events, i, ordered_responses, tasks,
                    task, thread, joined, doneQueue, yielded, idx, dto, lines, resolved,
                    saved >>

NextCalls ==
    \/ CallCompareRejected
    \/ CallCompareAccepted
    \/ CallPickSmartProvider
    \/ CallResolveChatTarget
    \/ CallAsk
    \/ CallIterStreamLines

SpecCalls == InitCalls /\ [][NextCalls]_vars

(***************************************************************************)
(* A session's TokenTracker and the client whose usage it is fed.  One     *)
(* behaviour is a sequence of get_completion, update and reset calls.      *)
(***************************************************************************)
\* the counters response.usage can carry: the total is the sum of the two
\* parts, or more when the vendor counts tokens that belong to neither
VendorUsages ==
    { TokenUsage(p, c, p + c + extra) :
          p \in {MaxVendorTokens}, c \in {0, MaxVendorTokens}, extra \in {0, 1} }

\* what client.chat.completions.create does in one call: it raises, or it
\* returns a response with or without a choice, whose usage is a count or None
VendorOutcomes ==
    { [kind |-> "raises"] }
        \cup { [kind |-> "response", choices |-> n, content |-> "ok", usage |-> u] :
                  n \in {0, 1}, u \in VendorUsages \cup {None} }

\* the usage dictionary of the last get_completion, None if it gave none
ClientUsage == IF returned = None THEN None ELSE returned.response[2]

\* what update() is called with: None, {}, the usage of the client's last
\* call, a dict that lacks keys, a successful response and an error response
FedUsages ==
    { None, EmptyDict, ClientUsage, [prompt_tokens |-> 2],
      AskSuccess("r1", "grok", "m1"),
      _make_error_response("r2", "grok", "m1", "timeout", "timed out", TRUE, NoDetails) }

InitTracker ==
    /\ mode = "tracker"
    /\ request = None
    /\ tracker = TokenTracker
    /\ fed = << >>
    /\ WebIdle
    /\ OptimizerIdle
    /\ returned = None
    /\ pc = "idle"
    /\ events = << >>
    /\ i = 0
    /\ ordered_responses = << >>
    /\ tasks = << >>
    /\ task = [t \in Indices |-> NoTask]
    /\ thread = [t \in Indices |-> "none"]
    /\ joined = FALSE
    /\ doneQueue = << >>
    /\ yielded = 0
    /\ idx = 0
    /\ dto = None
    /\ lines = << >>
    /\ resolved = << >>
    /\ saved = << >>

\* text, usage = client.get_completion(prompt, return_usage=...); request
\* keeps what the API did in the call and the flag it was made with
CallGetCompletion(vendor, return_usage) ==
    /\ mode = "tracker"
    /\ request' = [vendor |-> vendor, return_usage |-> return_usage]
    /\ returned' = get_completion(vendor, return_usage)
    /\ UNCHANGED << mode, pc, trackerVars, webVars, optimizerVars, streamVars >>

\* token_tracker.update(usage)
CallUpdate(usage) ==
    /\ mode = "tracker"
    /\ Len(fed) < MaxRequests
    /\ tracker' = update(tracker, usage)
    /\ fed' = Append(fed, usage)
    /\ UNCHANGED << mode, request, returned, pc, webVars, optimizerVars, streamVars >>

\* token_tracker.reset()
CallReset ==
    /\ mode = "tracker"
    /\ tracker' = reset
    /\ fed' = << >>
    /\ UNCHANGED << mode, request, returned, pc, webVars, optimizerVars, streamVars >>

NextTracker ==
    \/ \E vendor \in VendorOutcomes, return_usage \in BOOLEAN :
           CallGetCompletion(vendor, return_usage)
    \/ \E usage \in FedUsages : CallUpdate(usage)
    \/ CallReset

SpecTracker == InitTracker /\ [][NextTracker]_vars

(***************************************************************************)
(* Vocabulary of the properties.                                           *)
(***************************************************************************)
\* the positions in the stream of the events of one type
TypePos(ty) == { k \in 1..Len(events) : events[k].type = ty }

\* the positions of the per-target events of one type that carry index t
Pos(ty, t) == { k \in TypePos(ty) : events[k].index = t }

CompareEmittedDone == mode = "compare" /\ TypePos("done") # {}

\* the aggregate carried by the done event
Aggregate == events[CHOOSE k \in TypePos("done") : TRUE].compare

\* a target the request leaves without provider or without model
TargetIsBlank(t) ==
    \/ Strip(request.targets[t + 1].provider) = ""
    \/ Strip(request.targets[t + 1].model) = ""

\* position of target t in the order in which the calls resolved, 0 if unresolved
ResolvedAt(t) ==
    IF \E k \in 1..Len(resolved) : resolved[k] = t
    THEN CHOOSE k \in 1..Len(resolved) : resolved[k] = t
    ELSE 0

\* C1: in the aggregate of the done event, the entry at position i is the
\* response produced for the target at position i of the request, whatever
\* the order in which the calls completed.
C1_AggregateInRequestOrder ==
    CompareEmittedDone =>
        /\ Len(Aggregate.responses) = N
        /\ \A t \in Indices :
              IF TargetIsBlank(t)
              THEN /\ Aggregate.responses[t + 1].error # None
                   /\ Aggregate.responses[t + 1].error.code = "bad_request"
                   /\ Aggregate.responses[t + 1].provider
                          = OrUnknown(Lower(Strip(request.targets[t + 1].provider)))
                   /\ Aggregate.responses[t + 1].model
                          = OrUnknown(Strip(request.targets[t + 1].model))
              ELSE /\ task[t].state = "done"
                   /\ task[t].result.kind = "value"
                   /\ Aggregate.responses[t + 1] = task[t].result.response
                   /\ Aggregate.responses[t + 1].provider
                          = Lower(Strip(request.targets[t + 1].provider))

\* a finished compare whose calls completed in the reverse of request order
C1_Witness ==
    /\ CompareEmittedDone
    /\ pc = "end"
    /\ Len(resolved) >= 2
    /\ resolved[1] > resolved[2]
    /\ Aggregate.responses[resolved[1] + 1].error = None

\* target t failed: it was rejected, its call raised, or it resolved to an
\* error response (a normalized error or a timeout)
Failed(t) ==
    \/ TargetIsBlank(t)
    \/ /\ task[t].state = "done"
       /\ \/ task[t].result.kind = "exc"
          \/ task[t].result.response.error # None

Raised(t) == task[t].state = "done" /\ task[t].result.kind = "exc"

\* C2: when a compare stream has ended, a target whose own call did not raise
\* has its response_done event and its entry in the aggregate of done, also
\* when another target failed in any way.
C2_FailureIsolated ==
    (mode = "compare" /\ pc = "end") =>
        \A t, u \in Indices :
            (t # u /\ Failed(t) /\ ~Raised(u)) =>
                /\ Pos("response_done", u) # {}
                /\ CompareEmittedDone
                /\ Len(Aggregate.responses) = N
                /\ Aggregate.responses[u + 1].request_id
                       \in {AskRequestId(u), uuid4("bad", u), uuid4("timeout", u)}

\* what the call of target u can produce on its own account under request id
\* rid: one of ask's responses, or its own timeout
OwnResponses(u, rid) ==
    { AskResponse(kind, rid, Lower(Strip(request.targets[u + 1].provider)),
                  Strip(request.targets[u + 1].model)) : kind \in AskReturnKinds }
    \cup { r \in { _make_error_response(rid, Lower(Strip(request.targets[u + 1].provider)),
                      Strip(request.targets[u + 1].model), "timeout",
                      "Request timed out after " \o FormatFloat(request.timeout_s) \o "s",
                      TRUE, { << "timeout_seconds", request.timeout_s >> }) } :
             request.timeout_s # 0 }

\* a task that finished while its worker thread is still inside the call
TimedOut(t) == task[t].state = "done" /\ thread[t] = "running"

\* C3: a call that outlasts timeout_s resolves to a timeout error response
\* (retryable, details.timeout_seconds = timeout_s, empty text, zero usage and
\* cost), which is its entry in the aggregate, and every sibling's entry is a
\* response of the sibling's own call.
C3_TimeoutResponse ==
    \A t \in Indices :
        (mode = "compare" /\ TimedOut(t)) =>
            /\ task[t].result.kind = "value"
            /\ LET r == task[t].result.response
               IN /\ r.error # None
                  /\ r.error.code = "timeout"
                  /\ r.error.retryable = TRUE
                  /\ r.error.details = { << "timeout_seconds", request.timeout_s >> }
                  /\ r.text = ""
                  /\ r.token_usage = TokenUsage(0, 0, 0)
                  /\ r.estimated_cost = 0
            /\ CompareEmittedDone =>
                  /\ Aggregate.responses[t + 1] = task[t].result.response
                  /\ \A u \in Indices \ {t} :
                        ~TargetIsBlank(u) =>
                            Aggregate.responses[u + 1]
                                \in OwnResponses(u, Aggregate.responses[u + 1].request_id)

\* a finished compare in which one call timed out and a sibling succeeded
C3_Witness ==
    /\ CompareEmittedDone
    /\ pc = "end"
    /\ \E t, u \in Indices :
          /\ TimedOut(t)
          /\ u # t
          /\ Aggregate.responses[u + 1].error = None

\* C4: a target with a blank provider or model gets a bad_request response
\* (not retryable, latency 0) and never a task or a worker thread; when every
\* target is blank no call is made and done carries error_count = len(targets).
C4_BlankTargetNoCall ==
    mode = "compare" =>
        /\ \A t \in Indices :
              TargetIsBlank(t) =>
                  /\ thread[t] = "none"
                  /\ task[t].state = "none"
                  /\ (Len(ordered_responses) = N /\ t < i) =>
                        /\ ordered_responses[t + 1] # None
                        /\ ordered_responses[t + 1].error.code = "bad_request"
                        /\ ordered_responses[t + 1].error.retryable = FALSE
                        /\ ordered_responses[t + 1].latency_ms = 0
        /\ ((\A t \in Indices : TargetIsBlank(t)) /\ pc = "end") =>
              /\ tasks = << >>
              /\ events[Len(events)].type = "done"
              /\ Aggregate.error_count = N

\* a finished compare all of whose targets were blank
C4_Witness ==
    /\ mode = "compare"
    /\ pc = "end"
    /\ \A t \in Indices : TargetIsBlank(t)
    /\ CompareEmittedDone
    /\ Aggregate.error_count = N
    /\ \E t \in Indices : Strip(request.targets[t + 1].provider) # ""

\* C5: in every aggregate success_count + error_count = len(responses) and
\* len(responses) = len(targets), counting as errors the responses whose
\* error is set.
C5_CountsAddUp ==
    CompareEmittedDone =>
        LET rs == Aggregate.responses
        IN /\ Len(rs) = N
           /\ Aggregate.success_count + Aggregate.error_count = Len(rs)
           /\ Aggregate.error_count = Cardinality({ k \in 1..Len(rs) : rs[k].error # None })

\* an aggregate with both successes and errors, a timeout among the errors
C5_Witness ==
    /\ CompareEmittedDone
    /\ Aggregate.success_count >= 1
    /\ Aggregate.error_count >= 2
    /\ \E k \in 1..N : /\ Aggregate.responses[k].error # None
                       /\ Aggregate.responses[k].error.code = "timeout"

\* C6: done is emitted only after every target has resolved and its
\* response_done has been emitted.
C6_WaitForAll ==
    mode = "compare" =>
        \A k \in TypePos("done") :
            \A t \in Indices :
                /\ \E j \in Pos("response_done", t) : j < k
                /\ ~TargetIsBlank(t) => task[t].state = "done"

\* a done that followed a first success and then a later-resolving target
C6_Witness ==
    /\ CompareEmittedDone
    /\ Len(resolved) >= 2
    /\ task[resolved[1]].result.kind = "value"
    /\ task[resolved[1]].result.response.error = None
    /\ \E a \in Pos("response_done", resolved[1]), b \in Pos("response_start", resolved[2]) :
          a < b

\* the types of the events of the stream, in order
EventTypes == [k \in 1..Len(events) |-> events[k].type]

\* start, then only line events from position 2 up to position m
StartThenLines(m) ==
    /\ EventTypes[1] = "start"
    /\ \A k \in 2..m : EventTypes[k] = "line"

\* C7: once the orchestrator call of chat_stream has returned a response, the
\* stream is start, line*, response_done, done - a prefix of it while the
\* generator runs and the whole of it, with nothing after done, once it ended.
C7_ChatEventOrder ==
    (mode = "chat" /\ dto # None) =>
        LET n == Len(events)
        IN /\ n >= 1
           /\ \/ pc = "lines" /\ StartThenLines(n)
              \/ /\ pc = "done"
                 /\ n >= 2
                 /\ StartThenLines(n - 1)
                 /\ EventTypes[n] = "response_done"
              \/ /\ pc \in {"persist", "end"}
                 /\ n >= 3
                 /\ StartThenLines(n - 2)
                 /\ EventTypes[n - 1] = "response_done"
                 /\ EventTypes[n] = "done"

\* an ended chat stream whose response was streamed as two lines, with the
\* history write having failed
C7_Witness ==
    /\ mode = "chat"
    /\ pc = "end"
    /\ dto # None
    /\ Cardinality(TypePos("line")) = 2
    /\ saved = << >>

\* C8: a stream holds at most one error event, nothing follows an error
\* event, done and error never both occur, and a stream that has ended ends
\* with exactly one done or exactly one error.
C8_ErrorIsTerminal ==
    /\ Cardinality(TypePos("error")) <= 1
    /\ \A k \in TypePos("error") : k = Len(events)
    /\ ~(TypePos("error") # {} /\ TypePos("done") # {})
    /\ (mode \in StreamModes /\ pc = "end") =>
          /\ events # << >>
          /\ EventTypes[Len(events)] \in {"done", "error"}
          /\ Cardinality(TypePos("done")) + Cardinality(TypePos("error")) = 1

\* a compare stream that ended in error after a target had been streamed
\* while another call was still running
C8_Witness ==
    /\ mode = "compare"
    /\ pc = "end"
    /\ TypePos("error") # {}
    /\ TypePos("response_done") # {}
    /\ \E t \in Indices : thread[t] = "running"

\* C9: a compare stream that reached done is start, then one block per
\* target - response_start(i), line(i)*, response_done(i), nothing of another
\* target in between - then done, with start and done emitted exactly once.
C9_CompareBlocks ==
    CompareEmittedDone =>
        LET n == CHOOSE k \in TypePos("done") : TRUE
        IN /\ TypePos("start") = {1}
           /\ TypePos("done") = {n}
           /\ n = Len(events)
           /\ \A k \in 2..(n - 1) : EventTypes[k] \in {"response_start", "line", "response_done"}
           /\ \A t \in Indices :
                 /\ Cardinality(Pos("response_start", t)) = 1
                 /\ Cardinality(Pos("response_done", t)) = 1
                 /\ LET a == CHOOSE k \in Pos("response_start", t) : TRUE
                        b == CHOOSE k \in Pos("response_done", t) : TRUE
                    IN /\ a < b
                       /\ \A k \in (a + 1)..(b - 1) :
                             EventTypes[k] = "line" /\ events[k].index = t
                       /\ \A k \in Pos("line", t) : a < k /\ k < b
           /\ \A k \in 2..(n - 1) : events[k].index \in Indices

\* a finished compare stream with a rejected target's block and the
\* two-line block of a successful target with a non-zero index
C9_Witness ==
    /\ CompareEmittedDone
    /\ \E t \in Indices : TargetIsBlank(t)
    /\ \E t \in Indices : t > 0 /\ Cardinality(Pos("line", t)) = 2

\* C10: the target blocks are emitted in the order in which the calls
\* resolved: if a's call resolved before b's, response_start(a) comes before
\* response_start(b).
C10_CompletionOrder ==
    mode = "compare" =>
        \A a, b \in Indices :
            (/\ ResolvedAt(a) # 0
             /\ ResolvedAt(b) # 0
             /\ ResolvedAt(a) < ResolvedAt(b)
             /\ Pos("response_start", a) # {}
             /\ Pos("response_start", b) # {}) =>
                \A x \in Pos("response_start", a), y \in Pos("response_start", b) : x < y

\* the provider and model of target t as the stream names them: trimmed,
\* the provider lower-cased
NormalProvider(t) == Lower(Strip(request.targets[t + 1].provider))
NormalModel(t) == Strip(request.targets[t + 1].model)

PerTargetTypes == {"response_start", "line", "response_done"}

\* every per-target event is tagged with a target position, and a line or
\* response_done continues the block of its own target: the event before it
\* is the response_start or a line with the same tag
IndexTagsTiedToBlocks ==
    \A k \in 1..Len(events) :
        events[k].type \in PerTargetTypes =>
            /\ events[k].index \in Indices
            /\ events[k].type # "response_start" =>
                  /\ k > 1
                  /\ events[k - 1].type \in {"response_start", "line"}
                  /\ events[k - 1].index = events[k].index

\* the events tagged t carry a response made for target t, and name this
\* provider and this model
EventsOfTargetName(t, provider, model) ==
    /\ \A k \in Pos("response_start", t) :
          /\ events[k].provider = provider
          /\ events[k].model = model
    /\ \A k \in Pos("response_done", t) :
          /\ events[k].response.request_id
                 \in { AskRequestId(t), uuid4("bad", t), uuid4("timeout", t) }
          /\ events[k].response.provider = provider
          /\ events[k].response.model = model

\* C11 as stated: every per-target event carries the position of its target,
\* and response_start(i) and response_done(i) name the provider and model of
\* targets[i] (trimmed, the provider lower-cased).
C11_EventsNameTheTarget ==
    mode = "compare" =>
        /\ IndexTagsTiedToBlocks
        /\ \A t \in Indices : EventsOfTargetName(t, NormalProvider(t), NormalModel(t))

\* C11 as amended: every per-target event carries the position of its target,
\* and response_start(i) and response_done(i) name the provider and model of
\* targets[i] (trimmed, the provider lower-cased), with "unknown" in place of
\* a provider or model that is empty.
C11_EventsNameTheTargetOrUnknown ==
    mode = "compare" =>
        /\ IndexTagsTiedToBlocks
        /\ \A t \in Indices :
              EventsOfTargetName(t, OrUnknown(NormalProvider(t)), OrUnknown(NormalModel(t)))

\* a finished compare that streamed a target without model and, out of
\* request order, two well-formed targets
C11_Witness ==
    /\ CompareEmittedDone
    /\ \E t \in Indices : NormalModel(t) = "" /\ Pos("response_done", t) # {}
    /\ \E a, b \in Indices :
          /\ a < b
          /\ \E x \in Pos("response_done", a), y \in Pos("response_done", b) : y < x

\* C12: in every aggregate total_tokens is the sum of token_usage.total_tokens
\* and total_cost the sum of estimated_cost over the responses it lists; the
\* totals appear in the done event only.
C12_TotalsAreSums ==
    mode = "compare" =>
        \A k \in 1..Len(events) :
            IF events[k].type = "done"
            THEN LET agg == events[k].compare
                 IN /\ agg.total_tokens
                         = Sum([m \in 1..Len(agg.responses) |->
                                  agg.responses[m].token_usage.total_tokens])
                    /\ agg.total_cost
                         = Sum([m \in 1..Len(agg.responses) |->
                                  agg.responses[m].estimated_cost])
            ELSE "compare" \notin DOMAIN events[k]

\* an aggregate over two successes and an error
C12_Witness ==
    /\ CompareEmittedDone
    /\ Aggregate.success_count = 2
    /\ Aggregate.error_count >= 1
    /\ Aggregate.total_tokens = 14
    /\ Aggregate.total_cost = 10

\* target t resolved as timeout
ResolvedAsTimeout(t) ==
    /\ task[t].state = "done"
    /\ task[t].result.kind = "value"
    /\ task[t].result.response.error # None
    /\ task[t].result.response.error.code = "timeout"

\* the call of target t completed after t resolved as timeout, and t has one
\* block of events at most, with the timeout response in its response_done
\* and in its entry of the aggregate
TimeoutResponseStands(t) ==
    (ResolvedAsTimeout(t) /\ thread[t] = "finished") =>
        /\ Cardinality(Pos("response_start", t)) <= 1
        /\ Cardinality(Pos("response_done", t)) <= 1
        /\ \A k \in Pos("response_done", t) :
              events[k].response = task[t].result.response
        /\ CompareEmittedDone =>
              Aggregate.responses[t + 1] = task[t].result.response

\* C13: when the call of a target that already resolved as timeout completes,
\* nothing but the worker thread changes: the task keeps its timeout
\* response, nothing is queued or emitted; from then on the target has one
\* block of events and its entry in the aggregate is the timeout response.
C13_LateCompletionDiscarded ==
    [][\A t \in Indices :
          /\ (ResolvedAsTimeout(t) /\ thread[t] = "running" /\ thread'[t] = "finished") =>
                /\ task' = task
                /\ doneQueue' = doneQueue
                /\ resolved' = resolved
                /\ ordered_responses' = ordered_responses
                /\ events' = events
          /\ TimeoutResponseStands(t)']_vars

\* a finished compare in which the call of a timed-out target completed
\* before the target's block was streamed
C13_Witness ==
    /\ CompareEmittedDone
    /\ \E t \in Indices :
          /\ ResolvedAsTimeout(t)
          /\ thread[t] = "finished"
          /\ Aggregate.responses[t + 1].error.code = "timeout"

\* a direct call of the named function has returned
Returned(fn) == mode = fn /\ pc = "returned"

\* the lower-cased prompt holds one of the signals
HasSignal(prompt, signals) == \E signal \in signals : Contains(Lower(prompt), signal)

\* C14: ask never raises to its caller: whatever the client call does, ask
\* returns a response; when the client raises a generic error the response
\* is an error with code upstream_error, empty text and zero usage; when it
\* raises a timeout the response has code timeout and is retryable.
C14_AskNeverRaises ==
    Returned("ask") =>
        /\ returned.kind = "value"
        /\ request.client = "raises_error" =>
              /\ returned.response.error # None
              /\ returned.response.error.code = "upstream_error"
              /\ returned.response.text = ""
              /\ returned.response.token_usage = TokenUsage(0, 0, 0)
        /\ request.client = "raises_timeout" =>
              /\ returned.response.error # None
              /\ returned.response.error.code = "timeout"
              /\ returned.response.error.retryable

\* ask returned although the client raised a generic error
C14_Witness ==
    /\ Returned("ask")
    /\ request.client = "raises_error"
    /\ request.provider = "demo"
    /\ returned.kind = "value"

\* C15: with smart_mode false the provider is gemini for every prompt and
\* every research_mode; with smart_mode and research_mode true it is openai
\* for every prompt, also one with code or creative keywords.
C15_SmartThenResearchGate ==
    Returned("pick") =>
        /\ ~request.smart_mode => returned = "gemini"
        /\ (request.smart_mode /\ request.research_mode) => returned = "openai"

\* a prompt with code and creative keywords routed by the research gate
C15_Witness ==
    /\ Returned("pick")
    /\ request.smart_mode
    /\ request.research_mode
    /\ HasSignal(request.prompt, code_signals)
    /\ HasSignal(request.prompt, creative_signals)
    /\ returned = "openai"

\* C16: with smart_mode true and research_mode false, a prompt whose
\* lower-cased text holds a code keyword goes to deepseek, also when it holds
\* reasoning or creative keywords or is longer than 900 characters; a prompt
\* with reasoning and creative keywords but no code keyword goes to openai.
C16_CodeGateBeforeReasoning ==
    (Returned("pick") /\ request.smart_mode /\ ~request.research_mode) =>
        /\ HasSignal(request.prompt, code_signals) => returned = "deepseek"
        /\ ( /\ ~HasSignal(request.prompt, code_signals)
             /\ HasSignal(request.prompt, deep_reasoning_signals)
             /\ HasSignal(request.prompt, creative_signals) ) => returned = "openai"

\* a prompt of more than 900 characters with keywords of all three gates,
\* written in capitals, routed to deepseek
C16_Witness ==
    /\ Returned("pick")
    /\ request.smart_mode
    /\ ~request.research_mode
    /\ Len(request.prompt) > LengthThreshold
    /\ ~Contains(request.prompt, "debug")
    /\ HasSignal(request.prompt, code_signals)
    /\ HasSignal(request.prompt, deep_reasoning_signals)
    /\ HasSignal(request.prompt, creative_signals)
    /\ returned = "deepseek"

\* the gate a prompt without code and reasoning keywords falls through to
\* when the length gate does not fire
CreativeOrDefault(prompt) ==
    IF HasSignal(prompt, creative_signals) THEN "grok" ELSE "gemini"

\* C17 as stated: with smart_mode true and research_mode false, a prompt with
\* no code and no reasoning keyword goes to openai iff the prompt is longer
\* than 900 characters; a prompt of exactly 900 characters falls through to
\* the creative or default gate.
C17_LengthGateOnPrompt ==
    ( /\ Returned("pick") /\ request.smart_mode /\ ~request.research_mode
      /\ ~HasSignal(request.prompt, code_signals)
      /\ ~HasSignal(request.prompt, deep_reasoning_signals) ) =>
        /\ returned = "openai" <=> Len(request.prompt) > LengthThreshold
        /\ Len(request.prompt) = LengthThreshold =>
              returned = CreativeOrDefault(request.prompt)

\* C17 as amended: with smart_mode true and research_mode false, a prompt
\* with no code and no reasoning keyword goes to openai iff its lower-cased
\* text is longer than 900 characters; a lower-cased text of exactly 900
\* characters falls through to the creative or default gate.
C17_LengthGateOnLoweredText ==
    ( /\ Returned("pick") /\ request.smart_mode /\ ~request.research_mode
      /\ ~HasSignal(request.prompt, code_signals)
      /\ ~HasSignal(request.prompt, deep_reasoning_signals) ) =>
        /\ returned = "openai" <=> Len(Lower(request.prompt)) > LengthThreshold
        /\ Len(Lower(request.prompt)) = LengthThreshold =>
              returned = CreativeOrDefault(request.prompt)

\* a prompt with a creative keyword whose lower-cased text has exactly 900
\* characters, routed to grok
C17_Witness ==
    /\ Returned("pick")
    /\ request.smart_mode
    /\ ~request.research_mode
    /\ Len(Lower(request.prompt)) = LengthThreshold
    /\ HasSignal(request.prompt, creative_signals)
    /\ returned = "grok"

\* the request names a provider
NamesProvider == Strip(request.provider) # ""

\* C19 as stated: when the request names a provider, the resolved provider is
\* that provider trimmed and lower-cased, whatever the prompt and the routing
\* hints, and the resolved model is the caller's model (trimmed) if the
\* caller's model is non-empty, otherwise the provider's default model.
C19_NamedProviderKept ==
    (Returned("resolve") /\ NamesProvider) =>
        /\ returned[1] = Lower(Strip(request.provider))
        /\ returned[2] = IF request.model # "" THEN Strip(request.model)
                         ELSE _default_model_for_provider(returned[1])

\* C19 as amended: when the request names one of the four known providers,
\* the resolved provider is that provider trimmed and lower-cased, whatever
\* the prompt and the routing hints, and the resolved model is the caller's
\* model trimmed if that is non-empty, otherwise the provider's default model.
C19_NamedProviderKeptModelTrimmed ==
    (Returned("resolve") /\ NamesProvider) =>
        /\ returned[1] = Lower(Strip(request.provider))
        /\ returned[2] = IF Strip(request.model) # "" THEN Strip(request.model)
                         ELSE _default_model_for_provider(returned[1])

\* a request naming a provider, with a blank model and routing hints that
\* would pick another provider, resolved to the named provider's default
C19_Witness ==
    /\ Returned("resolve")
    /\ request.provider = " OpenAI"
    /\ request.model = " "
    /\ request.routing # None
    /\ ~request.routing.smart_mode
    /\ returned = << "openai", "gpt-4o" >>

\* the text is one unbroken block: no line boundary before its end
SingleBlock(text) ==
    \A p \in 1..(Len(text) - 1) :
        IsLineBreak(CharAt(text, p)) =>
            /\ p = Len(text) - 1
            /\ CharAt(text, p) = "\r"
            /\ CharAt(text, p + 1) = "\n"

\* C20: a text that is a single unbroken block of n > 0 characters gives
\* exactly ceil(n/120) lines, each of at most 120 characters and all but the
\* last of exactly 120; 300 characters give 3 lines; an empty text gives none.
C20_ChunksOfSingleBlock ==
    (Returned("split") /\ SingleBlock(request.text)) =>
        LET n == Len(request.text)
        IN /\ Len(returned) * chunk_size >= n
           /\ (Len(returned) - 1) * chunk_size < n \/ n = 0
           /\ n = 0 => returned = << >>
           /\ n = 300 => Len(returned) = 3
           /\ \A k \in 1..Len(returned) :
                 /\ Len(returned[k]) <= chunk_size
                 /\ k < Len(returned) => Len(returned[k]) = chunk_size

\* a block of 300 characters split into 3 lines
C20_Witness ==
    /\ Returned("split")
    /\ Len(request.text) = 300
    /\ SingleBlock(request.text)
    /\ Len(returned) = 3
    /\ Len(returned[3]) = 60

\* "".join(chunks)
RECURSIVE Join(_)
Join(chunks) == IF chunks = << >> THEN "" ELSE Head(chunks) \o Join(Tail(chunks))

\* the chunk holds no line boundary before its end
EndsAtBoundary(chunk) == SingleBlock(chunk)

\* C21: for every text the chunks of _iter_stream_lines joined in order are
\* the text; when the text has several lines, each chunk is one line with its
\* terminator at its end: no chunk holds a boundary before its end and every
\* chunk but the last ends with one.
C21_SplitLosesNothing ==
    Returned("split") =>
        /\ Join(returned) = request.text
        /\ ~SingleBlock(request.text) =>
              \A k \in 1..Len(returned) :
                  /\ returned[k] # ""
                  /\ EndsAtBoundary(returned[k])
                  /\ k < Len(returned) =>
                        IsLineBreak(CharAt(returned[k], Len(returned[k])))

\* a text of three lines, one of them empty, split into its lines
C21_Witness ==
    /\ Returned("split")
    /\ request.text = "ab\n\ncd\n"
    /\ returned = << "ab\n", "\n", "cd\n" >>

\* the texts of the line events tagged t among the first k events, joined
RECURSIVE LinesJoined(_, _)
LinesJoined(t, k) ==
    IF k = 0 THEN ""
    ELSE IF events[k].type = "line" /\ events[k].index = t
         THEN LinesJoined(t, k - 1) \o events[k].text
    ELSE LinesJoined(t, k - 1)

\* C22 as stated: for every response_done, of a successful or an errored
\* response, the text of the response it carries is the concatenation of the
\* line events emitted for its index before it.
C22_DoneTextIsTheLines ==
    \A k \in TypePos("response_done") :
        events[k].response.text = LinesJoined(events[k].index, k - 1)

\* C22 as amended: for every response_done whose response has a non-empty
\* text, that text is the concatenation of the line events emitted for its
\* index before it; for a response with empty text and an error the lines
\* concatenate to "Error: " followed by the error's message.
C22_DoneTextOrErrorIsTheLines ==
    \A k \in TypePos("response_done") :
        LET d == events[k].response
        IN LinesJoined(events[k].index, k - 1)
               = (IF d.text # "" THEN d.text
                  ELSE IF d.error # None THEN "Error: " \o d.error.message
                  ELSE "")

\* a compare stream whose last event is the response_done of a successful
\* response of two lines, after the block of an errored one
C22_Witness ==
    /\ mode = "compare"
    /\ Len(events) > 6
    /\ events[Len(events)].type = "response_done"
    /\ events[Len(events)].response.error = None
    /\ events[Len(events) - 1].type = "line"
    /\ events[Len(events) - 2].type = "line"
    /\ \E k \in TypePos("response_done") : events[k].response.error # None

\* C23: the persistence step, failing or not, changes neither the events nor
\* the DTO; rows are written in that step only, which a stream reaches only
\* after its done event; a stream emits nothing after it; chat and compare
\* then return the DTO built before it.
C23_PersistenceNeverSurfaces ==
    [][ /\ pc = "persist" => (events' = events /\ dto' = dto /\ pc' \in {"persist", "end"})
        /\ saved' # saved => pc = "persist"
        /\ (pc = "persist" /\ mode \in StreamModes) =>
              (events # << >> /\ events[Len(events)].type = "done")
        /\ (pc = "end" /\ mode \in StreamModes) => events' = events
        /\ (pc = "end" /\ mode \in HandlerModes) =>
              (returned' = Returns(dto) /\ dto' = dto /\ pc' = "returned") ]_vars

\* compare has returned its DTO, with an errored and a successful response,
\* although nothing could be saved
C23_Witness ==
    /\ mode = "compare_handler"
    /\ pc = "returned"
    /\ saved = << >>
    /\ returned = Returns(dto)
    /\ dto.error_count >= 1
    /\ dto.success_count >= 1

ResponsesBuilt ==
    ({ ordered_responses[k] : k \in DOMAIN ordered_responses } \ {None})
        \cup { events[k].response : k \in TypePos("response_done") }

\* C25: every response either has a text and no error, or has an error; one
\* with an error has empty text, zero token usage and zero estimated cost.
C25_TextOrError ==
    \A r \in ResponsesBuilt :
        /\ r.error = None => r.text # ""
        /\ r.error # None =>
              /\ r.text = ""
              /\ r.token_usage = TokenUsage(0, 0, 0)
              /\ r.estimated_cost = 0

\* a compare stream is done with a bad_request response, a timeout response
\* and a successful response among its three
C25_Witness ==
    /\ CompareEmittedDone
    /\ \E r \in ResponsesBuilt : r.error # None /\ r.error.code = "bad_request"
    /\ \E r \in ResponsesBuilt : r.error # None /\ r.error.code = "timeout"
    /\ \E r \in ResponsesBuilt : r.error = None

\* the usages update() was called with that are neither None nor empty
Counted(history) == SelectSeq(history, LAMBDA u : u # None /\ DOMAIN u # {})

\* the count a usage carries under a key: a response's token_usage field, a
\* dict's entry, 0 for a key the dict lacks
FieldOf(u, key) == IF IsUnifiedResponse(u) THEN u.token_usage[key] ELSE Get(u, key)

RECURSIVE SumOf(_, _)
SumOf(history, key) ==
    IF history = << >> THEN 0
    ELSE FieldOf(Head(history), key) + SumOf(Tail(history), key)

\* C26: the usage dictionary a client returns has total_tokens =
\* prompt_tokens + completion_tokens, and so have the counters of a tracker
\* fed with the clients' usage and with responses.
C26_TotalIsPromptPlusCompletion ==
    mode = "tracker" =>
        /\ ClientUsage # None =>
              ClientUsage.total_tokens
                  = ClientUsage.prompt_tokens + ClientUsage.completion_tokens
        /\ (\A k \in 1..Len(Counted(fed)) :
                FieldOf(Counted(fed)[k], "total_tokens")
                    = FieldOf(Counted(fed)[k], "prompt_tokens")
                          + FieldOf(Counted(fed)[k], "completion_tokens"))
              => tracker.total_tokens
                     = tracker.total_prompt_tokens + tracker.total_completion_tokens

\* no awaited call of the request has raised
NoCallRaised ==
    IF mode = "chat" THEN dto # None
    ELSE \A t \in Indices : ~Raised(t)

\* C27: a response that came back with an error and no text is streamed as
\* one or more line events that together read "Error: <message>", directly
\* followed by its response_done; an error event is only ever the result of a
\* call that raised, and a stream in which none raised ends with done.
C27_ErrorResponseIsStreamed ==
    mode \in StreamModes =>
        /\ \A k \in TypePos("response_done") :
              LET r == events[k].response
              IN (r.error # None /\ r.text = "") =>
                    /\ events[k - 1].type = "line"
                    /\ events[k - 1].index = events[k].index
                    /\ LinesJoined(events[k].index, k - 1) = "Error: " \o r.error.message
        /\ TypePos("error") # {} => ~NoCallRaised
        /\ (pc = "end" /\ NoCallRaised) => events[Len(events)].type = "done"

\* a compare stream that ended with done after it streamed the error response
\* of the orchestrator for one target and a successful response for another
C27_Witness ==
    /\ CompareEmittedDone
    /\ pc = "end"
    /\ \E k \in TypePos("response_done") :
          /\ events[k].response.error # None
          /\ events[k].response.error.code = "upstream_error"
          /\ events[k - 1] = LineEvent(events[k].index, "Error: boom")
    /\ \E k \in TypePos("response_done") : events[k].response.error = None

\* the outcome for target t: the rejection of a blank target, else what its
\* task resolved to
OutcomeOf(t) ==
    IF TargetIsBlank(t) THEN from_unified_response(BadRequestResponse(t))
    ELSE from_unified_response(task[t].result.response)

\* the events of one target's block
BlockOf(t, d) ==
    LET ls == _iter_stream_lines(StreamText(d))
    IN << ResponseStartEvent(t, d) >>
           \o [k \in 1..Len(ls) |-> LineEvent(t, ls[k])]
           \o << ResponseDoneEvent(t, d) >>

RECURSIVE BlocksOf(_)
BlocksOf(ts) ==
    IF ts = << >> THEN << >>
    ELSE BlockOf(Head(ts), OutcomeOf(Head(ts))) \o BlocksOf(Tail(ts))

\* the stream that request, outcomes and completion order determine: start,
\* the rejected targets in request order, the others in the order in which
\* their calls resolved, done
EventsInCompletionOrder ==
    << StartEvent >>
        \o BlocksOf(SelectSeq(Range(0, N), TargetIsBlank))
        \o BlocksOf(resolved)
        \o << [type |-> "done", mode |-> "compare",
               compare |-> compare_payload([k \in 1..N |-> OutcomeOf(k - 1)])] >>

\* the chat stream that request and outcome determine
ChatEventsOfOutcome ==
    LET ls == _iter_stream_lines(StreamText(dto))
    IN << StartEvent >>
           \o [k \in 1..Len(ls) |-> LineEvent(0, ls[k])]
           \o << ResponseDoneEvent(0, dto), [type |-> "done", mode |-> "chat"] >>

\* C28: the events of a stream that reached done are fixed by the request,
\* the outcomes of the calls and the order in which they completed, and so do
\* not depend on how long the generator sleeps between two lines.
C28_EventsFixedByOutcomesAndOrder ==
    /\ CompareEmittedDone => events = EventsInCompletionOrder
    /\ (mode = "chat" /\ TypePos("done") # {}) => events = ChatEventsOfOutcome

\* the body has more targets than the endpoint takes, with its context or without
OverLimit(body) ==
    \/ Len(body.targets) > 4
    \/ body.context # None /\ Len(body.targets) > 2

\* C29: a compare request with more than 4 targets, or with a
\* context and more than 2 targets, is answered with HTTP 400, and no event
\* is streamed and no call made for it.
C29_OverLimitIsHttp400 ==
    (mode = "boundary" /\ pc # "call" /\ OverLimit(request)) =>
        /\ pc = "returned"
        /\ returned.kind = "exc"
        /\ returned.exception.type = "HTTPException"
        /\ returned.exception.status_code = 400
        /\ events = << >>

\* C30: the routing policy returns only providers that have an entry in
\* DEFAULT_MODELS, and a request that names no provider resolves to one of
\* the four providers with a non-empty model.
C30_RoutedTargetHasModel ==
    /\ Returned("pick") => returned \in DOMAIN DEFAULT_MODELS
    /\ (Returned("resolve") /\ ~NamesProvider) =>
          /\ returned[1] \in {"openai", "gemini", "deepseek", "grok"}
          /\ returned[2] # ""

\* C31: the tracker is pure accounting.  requests is the number of update()
\* calls with a non-empty usage since the last reset, each total is the sum
\* of that field over those usages; update(None) and update({}) change
\* nothing and reset() leaves all four counters 0.
C31_TrackerIsSumOfFed ==
    mode = "tracker" =>
        /\ tracker.requests = Len(Counted(fed))
        /\ tracker.total_prompt_tokens = SumOf(Counted(fed), "prompt_tokens")
        /\ tracker.total_completion_tokens = SumOf(Counted(fed), "completion_tokens")
        /\ tracker.total_tokens = SumOf(Counted(fed), "total_tokens")
        /\ get_summary(tracker).requests = Len(Counted(fed))
        /\ \A key \in {"prompt_tokens", "completion_tokens", "total_tokens"} :
               get_summary(tracker)[key] = SumOf(Counted(fed), key)

\* update() has been called with None or {} and with a usage that counts
C31_Witness ==
    /\ mode = "tracker"
    /\ Len(fed) = 2
    /\ fed[1] \in {None, EmptyDict}
    /\ fed[2] = [prompt_tokens |-> 2]
    /\ tracker.requests = 1
    /\ tracker.total_prompt_tokens = 2

\* the call fails: the API call raises, the response has no choice, or its
\* usage is asked for and is None
GetCompletionFails(vendor, return_usage) ==
    \/ vendor.kind = "raises"
    \/ vendor.choices = 0
    \/ return_usage /\ vendor.usage = None

\* C32: get_completion never raises.  Every failure of the API call or of
\* reading the response gives (None, None); a success gives the message text
\* with the usage dict, or with None when return_usage is false.
C32_GetCompletionNeverRaises ==
    (mode = "tracker" /\ returned # None) =>
        /\ returned.kind = "value"
        /\ GetCompletionFails(request.vendor, request.return_usage) =>
               /\ returned.response[1] = None
               /\ returned.response[2] = None
        /\ ~GetCompletionFails(request.vendor, request.return_usage) =>
               /\ returned.response[1] = request.vendor.content
               /\ request.return_usage =>
                      /\ DOMAIN returned.response[2]
                             = {"prompt_tokens", "completion_tokens", "total_tokens"}
                      /\ \A key \in DOMAIN returned.response[2] :
                             returned.response[2][key] = request.vendor.usage[key]
               /\ ~request.return_usage => returned.response[2] = None

\* the API returned a response whose usage is None, the usage was asked for,
\* and the call has returned (None, None)
C32_Witness ==
    /\ mode = "tracker"
    /\ returned # None
    /\ request.vendor.kind = "response"
    /\ request.vendor.choices = 1
    /\ request.vendor.usage = None
    /\ request.return_usage
    /\ returned.kind = "value"
    /\ returned.response[1] = None
    /\ returned.response[2] = None

(***************************************************************************)
(* web_server.py: the sessions and the legacy routes /api/chat and         *)
(* /api/chat/stream.  Flask's server handles each request on a thread of   *)
(* its own; a thread may be suspended between any two statements, and the  *)
(* steps below are cut where another thread's step can make a difference.  *)
(***************************************************************************)
Threads == 1..MaxThreads

\* MODEL_TYPE, openai unless the environment sets it, and the default of
\* models_to_compare
MODEL_TYPE == "openai"
\* COMPARE_MODE, false unless the environment sets it
COMPARE_MODE == FALSE
DefaultModelsToCompare == << "gemini", "openai", "claude" >>

\* the session ids and the 'models' lists requests come with (a request
\* without models runs the same loop over the three default models)
SessionIds == {"default", "s1"}
ModelLists == { << "openai" >>, << "claude", "openai" >> }

\* the message of the n-th request the server takes
Question(n) == "q" \o ToString(n)

\* the request bodies: /api/chat with a blank message, with a message for
\* one model in either session, with compare_mode and either list of models,
\* and the query of /api/chat/stream, which reads no models and never compares
ChatBodies(n) ==
    { [endpoint |-> "chat", message |-> "", session_id |-> "default",
       compare_mode |-> FALSE, models |-> << >>] }
        \cup { [endpoint |-> "chat", message |-> Question(n), session_id |-> id,
                compare_mode |-> FALSE, models |-> << >>] : id \in SessionIds }
        \cup { [endpoint |-> "chat", message |-> Question(n), session_id |-> "default",
                compare_mode |-> TRUE, models |-> ms] : ms \in ModelLists }
        \cup { [endpoint |-> "stream", message |-> Question(n), session_id |-> "default",
                compare_mode |-> FALSE, models |-> << >>] }

\* ConversationManager: the list of messages and its three operations
ConversationManager == << >>
add_user(conversation, content) ==
    Append(conversation, [role |-> "user", content |-> content])
add_assistant(conversation, content) ==
    Append(conversation, [role |-> "assistant", content |-> content])
pop_last_user(conversation) ==
    IF conversation # << >> /\ conversation[Len(conversation)].role = "user"
    THEN SubSeq(conversation, 1, Len(conversation) - 1)
    ELSE conversation

\* the dict get_or_create_session stores for a new session
NewSession == [conversation |-> ConversationManager, total_cost |-> 0, total_tokens |-> 0]

\* how one orchestrator.ask call of a handler ends
WebAskOutcomes == {"success", "error", "raises"}

\* the response of a call that returned
WebAskResponse(outcome, prompt, model_type) ==
    IF outcome = "success"
    THEN [AskSuccess("web", model_type, model_type \o "-1") EXCEPT
              !.text = model_type \o " on " \o prompt]
    ELSE AskError("web", model_type, model_type \o "-1")

\* a thread that handles no request
NoWorker == [pc |-> "idle", data |-> None, session |-> 0]

\* what is known of a request once its thread has answered it: the body, the
\* session object it wrote to, how its orchestrator.ask calls ended in call
\* order, and the answer
Answered(data, session, outcomes, result) ==
    Returns([data |-> data, session |-> session, outcomes |-> outcomes,
             result |-> result])

\* models_to_compare of the request a thread handles
models_to_compare(data) ==
    IF data.models = << >> THEN DefaultModelsToCompare ELSE data.models

\* a value that is a str or None: the tuple of the str, empty for None
NoneStr == << >>
Str(text) == << text >>

\* one entry of comparisons_data for a call that returned
ComparisonOf(model_type, resp) ==
    IF resp.error # None
    THEN [provider |-> model_type, model |-> resp.model, response |-> NoneStr,
          error |-> Str(resp.error.message), tokens |-> 0, cost |-> 0, latency_ms |-> 0]
    ELSE [provider |-> model_type, model |-> resp.model, response |-> Str(resp.text),
          error |-> NoneStr, tokens |-> resp.token_usage.total_tokens,
          cost |-> resp.estimated_cost, latency_ms |-> resp.latency_ms]

\* the entry of a call that raised
ComparisonOfException(model_type) ==
    [provider |-> model_type, model |-> model_type \o "-model", response |-> NoneStr,
     error |-> Str("exc"), tokens |-> 0, cost |-> 0, latency_ms |-> 0]

\* slip: a call that raises leaves no entry
comparisons_without_exceptions(comparisons_data, model_type, outcome, prompt) ==
    IF outcome = "raises" THEN comparisons_data
    ELSE Append(comparisons_data,
                ComparisonOf(model_type, WebAskResponse(outcome, prompt, model_type)))

\* comparisons_data after one turn of the loop over models_to_compare: the
\* try appends the entry of the response, the except the entry of the exception
comparisons_after(comparisons_data, model_type, outcome, prompt) ==
    IF outcome = "raises"
    THEN Append(comparisons_data, ComparisonOfException(model_type))
    ELSE Append(comparisons_data,
                ComparisonOf(model_type, WebAskResponse(outcome, prompt, model_type)))

\* is the entry's response truthy: neither None nor ""
HasResponse(comp) == comp.response # NoneStr /\ comp.response # Str("")

\* the conversation after "add the first successful response"
AddFirstSuccessful(conversation, comparisons_data) ==
    IF \E k \in 1..Len(comparisons_data) : HasResponse(comparisons_data[k])
    THEN add_assistant(conversation,
             comparisons_data[CHOOSE k \in 1..Len(comparisons_data) :
                 /\ HasResponse(comparisons_data[k])
                 /\ \A j \in 1..(k - 1) : ~HasResponse(comparisons_data[j])].response[1])
    ELSE conversation

\* the JSON body and status of the compare branch
CompareResult(comparisons_data) ==
    [status |-> 200, error |-> NoneStr,
     response |-> IF comparisons_data # << >> THEN comparisons_data[1].response
                  ELSE Str(""),
     comparisons |-> comparisons_data]

\* the answers of the single-model branch and of generate(): the response,
\* the error of an error response, the error of the except handler.  For
\* generate() status 200 stands for the complete event and 500 for the error
\* event.
SingleResult(resp) ==
    [status |-> 200, error |-> NoneStr, response |-> Str(resp.text), comparisons |-> << >>]
ErrorResult(status, message) ==
    [status |-> status, error |-> Str(message), response |-> NoneStr, comparisons |-> << >>]

InitWeb ==
    /\ mode = "web"
    /\ request = None
    /\ returned = None
    /\ pc = "idle"
    /\ tracker = TokenTracker
    /\ fed = << >>
    /\ sessions = << >>
    /\ heap = << >>
    /\ workers = [t \in Threads |-> NoWorker]
    /\ served = 0
    /\ OptimizerIdle
    /\ events = << >>
    /\ i = 0
    /\ ordered_responses = << >>
    /\ tasks = << >>
    /\ task = [t \in Indices |-> NoTask]
    /\ thread = [t \in Indices |-> "none"]
    /\ joined = FALSE
    /\ doneQueue = << >>
    /\ yielded = 0
    /\ idx = 0
    /\ dto = None
    /\ lines = << >>
    /\ resolved = << >>
    /\ saved = << >>

WebFrame == UNCHANGED << mode, request, pc, trackerVars, optimizerVars, streamVars >>

\* the thread holds the session object and goes on after the return of
\* get_or_create_session: conversation.add_user(user_message), then the branch
Enter(w, session) ==
    [w EXCEPT !.session = session,
              !.pc = IF (w.data.compare_mode \/ COMPARE_MODE) /\ w.data.endpoint = "chat"
                     THEN "compare" ELSE "ask"]

\* chat() / chat_stream() from the start, on the first thread that is free
\* (the threads are alike): a blank message is answered with 400; else
\* get_or_create_session tests session_id not in sessions, and for a session
\* that is there returns it
ReceiveChat(t, data) ==
    /\ mode = "web"
    /\ workers[t].pc = "idle"
    /\ \A u \in Threads : u < t => workers[u].pc # "idle"
    /\ served < MaxWebRequests
    /\ served' = served + 1
    /\ IF data.message = ""
       THEN /\ returned' = Answered(data, 0, << >>, ErrorResult(400, "Message is required"))
            /\ UNCHANGED << workers, heap >>
       ELSE IF data.session_id \in DOMAIN sessions
       THEN /\ workers' = [workers EXCEPT ![t] =
                   Enter([NoWorker EXCEPT !.data = data], sessions[data.session_id])]
            /\ heap' = [heap EXCEPT ![sessions[data.session_id]].conversation =
                            add_user(@, data.message)]
            /\ UNCHANGED returned
       ELSE /\ workers' = [workers EXCEPT ![t] =
                   [NoWorker EXCEPT !.pc = "create", !.data = data]]
            /\ UNCHANGED << returned, heap >>
    /\ UNCHANGED sessions
    /\ WebFrame

\* get_or_create_session, the session was not there: the new objects are
\* built and the dict is stored under sessions[session_id]
SessionCreate(t) ==
    /\ mode = "web"
    /\ workers[t].pc = "create"
    /\ heap' = Append(heap, NewSession)
    /\ sessions' = [id \in DOMAIN sessions \cup {workers[t].data.session_id} |->
                       IF id = workers[t].data.session_id THEN Len(heap) + 1
                       ELSE sessions[id]]
    /\ workers' = [workers EXCEPT ![t].pc = "fetch"]
    /\ UNCHANGED << served, returned >>
    /\ WebFrame

\* return sessions[session_id] after the store
SessionReturn(t) ==
    /\ mode = "web"
    /\ workers[t].pc = "fetch"
    /\ LET session == sessions[workers[t].data.session_id] IN
          /\ heap' = [heap EXCEPT ![session].conversation =
                          add_user(@, workers[t].data.message)]
          /\ workers' = [workers EXCEPT ![t] = Enter(@, session)]
    /\ UNCHANGED << sessions, served, returned >>
    /\ WebFrame

\* the list the thread's compare branch loops over
ModelsOf(t) ==
    IF workers[t].pc = "compare" THEN models_to_compare(workers[t].data) ELSE << >>

\* comparisons_data after the loop: one turn per model, in list order
RECURSIVE compare_loop(_, _, _, _)
compare_loop(comparisons_data, models, outcomes, prompt) ==
    IF Len(comparisons_data) >= Len(models) \/ Len(outcomes) = 0 THEN comparisons_data
    ELSE compare_loop(
             comparisons_after(comparisons_data, models[Len(models) - Len(outcomes) + 1],
                               Head(outcomes), prompt),
             models, Tail(outcomes), prompt)

\* the sum of a field over the entries
RECURSIVE SumField(_, _)
SumField(comparisons_data, key) ==
    IF comparisons_data = << >> THEN 0
    ELSE Head(comparisons_data)[key] + SumField(Tail(comparisons_data), key)

\* the compare branch of chat(): the loop, the session totals (which grow by
\* the tokens and cost of the responses without error, the entries of the
\* others being 0), the first successful response and the answer
CompareAsk(t, outcomes) ==
    /\ mode = "web"
    /\ workers[t].pc = "compare"
    /\ LET w == workers[t]
           models == models_to_compare(w.data)
           comparisons_data == compare_loop(<< >>, models, outcomes, w.data.message)
       IN /\ heap' = [heap EXCEPT
                 ![w.session].total_cost = @ + SumField(comparisons_data, "cost"),
                 ![w.session].total_tokens = @ + SumField(comparisons_data, "tokens"),
                 ![w.session].conversation = AddFirstSuccessful(@, comparisons_data)]
          /\ returned' = Answered(w.data, w.session, outcomes,
                                  CompareResult(comparisons_data))
    /\ workers' = [workers EXCEPT ![t] = NoWorker]
    /\ UNCHANGED << sessions, served >>
    /\ WebFrame

\* the single-model branch of chat() and the body of generate() from
\* orchestrator.ask on.  An error response pops the user message; the
\* handler of except Exception answers and leaves the conversation alone.
SingleAsk(t, outcome) ==
    /\ mode = "web"
    /\ workers[t].pc = "ask"
    /\ LET w == workers[t]
           resp == WebAskResponse(outcome, w.data.message, MODEL_TYPE)
       IN /\ heap' = [heap EXCEPT ![w.session].conversation =
                          IF outcome = "success" THEN add_assistant(@, resp.text)
                          ELSE IF outcome = "error" THEN pop_last_user(@)
                          ELSE @]
          /\ returned' = Answered(w.data, w.session, << outcome >>,
                             IF outcome = "success" THEN SingleResult(resp)
                             ELSE IF outcome = "error"
                             THEN ErrorResult(500, resp.error.message)
                             ELSE ErrorResult(500, "exc"))
    /\ workers' = [workers EXCEPT ![t] = NoWorker]
    /\ UNCHANGED << sessions, served >>
    /\ WebFrame

NextWeb ==
    \/ \E t \in Threads, data \in ChatBodies(served + 1) : ReceiveChat(t, data)
    \/ \E t \in Threads : SessionCreate(t)
    \/ \E t \in Threads : SessionReturn(t)
    \/ \E t \in Threads :
           \E outcomes \in [1..Len(ModelsOf(t)) -> WebAskOutcomes] : CompareAsk(t, outcomes)
    \/ \E t \in Threads, outcome \in WebAskOutcomes : SingleAsk(t, outcome)

SpecWeb == InitWeb /\ [][NextWeb]_vars

(***************************************************************************)
(* utils/prompt_optimizer.py: PromptOptimizer.optimize_prompt.  A Python   *)
(* value is kept with its type, a dict as the record of its items.         *)
(***************************************************************************)
PyStr(text) == [py_type |-> "str", text |-> text]
PyInt(n) == [py_type |-> "int", n |-> n]
PyList(elems) == [py_type |-> "list", elems |-> elems]
PyDict(items) == [py_type |-> "dict", items |-> items]
isinstance(v, type) == v.py_type = type

\* what optimize_prompt is called with: not a dict, no prompt, a prompt that
\* is no str, a blank prompt, settings that are no dict, and two valid inputs
InputDatas ==
    { PyStr("tidy"),
      PyDict([settings |-> PyDict(<< >>)]),
      PyDict([prompt |-> PyInt(42)]),
      PyDict([prompt |-> PyStr("  ")]),
      PyDict([prompt |-> PyStr("tidy"), settings |-> PyStr("x")]),
      PyDict([prompt |-> PyStr(" tidy my text ")]),
      PyDict([prompt |-> PyStr("tidy"),
              settings |-> PyDict([tone |-> PyStr("formal")])]) }

\* the dict with an error: {"optimized_prompt": ..., "error": {"message": ...,
\* "details": ...}}
ErrorDict(optimized_prompt, message, details) ==
    [optimized_prompt |-> optimized_prompt,
     error |-> PyDict([message |-> PyStr(message), details |-> PyDict(details)])]

\* slip: a blank prompt passes
_validate_input_accepts_blank(input_data) ==
    IF ~isinstance(input_data, "dict")
    THEN ErrorDict(PyStr(""), "Invalid input: expected dictionary",
                   [received_type |-> PyStr(input_data.py_type)])
    ELSE IF "prompt" \notin DOMAIN input_data.items
    THEN ErrorDict(PyStr(""), "Invalid input: 'prompt' field is required",
                   [received_keys |-> PyList(DOMAIN input_data.items)])
    ELSE IF ~isinstance(input_data.items.prompt, "str")
    THEN ErrorDict(PyStr(""), "Invalid input: 'prompt' must be a string",
                   [received_type |-> PyStr(input_data.items.prompt.py_type)])
    ELSE IF "settings" \in DOMAIN input_data.items
            /\ ~isinstance(input_data.items.settings, "dict")
    THEN ErrorDict(input_data.items.prompt, "Invalid input: 'settings' must be a dictionary",
                   [received_type |-> PyStr(input_data.items.settings.py_type)])
    ELSE None

\* _validate_input: the error dict of the first check that fails, None for a
\* valid input
_validate_input(input_data) ==
    IF ~isinstance(input_data, "dict")
    THEN ErrorDict(PyStr(""), "Invalid input: expected dictionary",
                   [received_type |-> PyStr(input_data.py_type)])
    ELSE IF "prompt" \notin DOMAIN input_data.items
    THEN ErrorDict(PyStr(""), "Invalid input: 'prompt' field is required",
                   [received_keys |-> PyList(DOMAIN input_data.items)])
    ELSE IF ~isinstance(input_data.items.prompt, "str")
    THEN ErrorDict(PyStr(""), "Invalid input: 'prompt' must be a string",
                   [received_type |-> PyStr(input_data.items.prompt.py_type)])
    ELSE IF Strip(input_data.items.prompt.text) = ""
    THEN ErrorDict(PyStr(""), "Invalid input: 'prompt' cannot be empty", << >>)
    ELSE IF "settings" \in DOMAIN input_data.items
            /\ ~isinstance(input_data.items.settings, "dict")
    THEN ErrorDict(input_data.items.prompt, "Invalid input: 'settings' must be a dictionary",
                   [received_type |-> PyStr(input_data.items.settings.py_type)])
    ELSE None

\* a list of str
StrList(texts) == PyList([k \in DOMAIN texts |-> PyStr(texts[k])])

\* the parsed outputs of the API that pass the schema, and those that have
\* an optimized_prompt and fail it
ValidResults ==
    { [optimized_prompt |-> PyStr("Tidy the text.")],
      [optimized_prompt |-> PyStr("Tidy."), steps |-> StrList(<< "cut" >>),
       metrics |-> PyDict(<< >>), error |-> PyDict([message |-> PyStr("partial")])] }
InvalidResults ==
    { [optimized_prompt |-> PyInt(7)],
      [optimized_prompt |-> PyStr("Tidy."), error |-> PyDict([code |-> PyInt(3)])] }

\* what _call_openai_for_optimization does in one call: it raises (the API
\* gave an error response, or text that is no JSON or has no
\* optimized_prompt), or it returns the parsed dict
ApiOutcomes ==
    { [kind |-> "raises"] }
        \cup { [kind |-> "returns", result |-> r] : r \in ValidResults \cup InvalidResults }

\* all(isinstance(s, str) for s in items)
AllStr(list) == \A k \in DOMAIN list.elems : isinstance(list.elems[k], "str")

\* _is_valid_output: the schema of the output
_is_valid_output(output) ==
    /\ "optimized_prompt" \in DOMAIN output
    /\ isinstance(output.optimized_prompt, "str")
    /\ "steps" \in DOMAIN output =>
           isinstance(output.steps, "list") /\ AllStr(output.steps)
    /\ "explanations" \in DOMAIN output =>
           isinstance(output.explanations, "list") /\ AllStr(output.explanations)
    /\ "metrics" \in DOMAIN output => isinstance(output.metrics, "dict")
    /\ "error" \in DOMAIN output =>
           /\ isinstance(output.error, "dict")
           /\ "message" \in DOMAIN output.error.items
           /\ isinstance(output.error.items.message, "str")

\* 2 ** n
RECURSIVE Pow2(_)
Pow2(n) == IF n <= 0 THEN 1 ELSE 2 * Pow2(n - 1)

\* slip: the wait doubles from 2 seconds
wait_time_from_two(attempt) == Pow2(attempt)

\* wait_time = 2 ** (attempt - 1)
wait_time(attempt) == Pow2(attempt - 1)

\* slip: the fallback has lost the prompt
failed_after_attempts_blank(prompt, max_retries) ==
    ErrorDict(PyStr(""),
              "Failed to optimize prompt after " \o ToString(max_retries) \o " attempts",
              [last_error |-> PyStr("exc"), error_type |-> PyStr("Exception")])

\* the fallback of the except branch of the final attempt
failed_after_attempts(prompt, max_retries) ==
    ErrorDict(prompt,
              "Failed to optimize prompt after " \o ToString(max_retries) \o " attempts",
              [last_error |-> PyStr("exc"), error_type |-> PyStr("Exception")])

\* the fallback after the loop
retries_exceeded(prompt, max_retries) ==
    ErrorDict(prompt, "Optimization failed: maximum retries exceeded",
              [max_retries |-> PyInt(max_retries)])

\* slip: a valid output does not end the loop before the final attempt
RECURSIVE retry_loop_keeps_trying(_, _, _, _, _)
retry_loop_keeps_trying(prompt, max_retries, outcomes, attempt, sleeps) ==
    IF attempt > max_retries
    THEN [result |-> retries_exceeded(prompt, max_retries),
          calls |-> attempt - 1, sleeps |-> sleeps]
    ELSE IF outcomes[attempt].kind = "returns"
    THEN IF _is_valid_output(outcomes[attempt].result) /\ attempt = max_retries
         THEN [result |-> outcomes[attempt].result, calls |-> attempt, sleeps |-> sleeps]
         ELSE retry_loop_keeps_trying(prompt, max_retries, outcomes, attempt + 1, sleeps)
    ELSE IF attempt = max_retries
    THEN [result |-> failed_after_attempts(prompt, max_retries),
          calls |-> attempt, sleeps |-> sleeps]
    ELSE retry_loop_keeps_trying(prompt, max_retries, outcomes, attempt + 1,
             Append(sleeps, [after |-> attempt, seconds |-> wait_time(attempt)]))

\* for attempt in range(1, max_retries + 1), from the given attempt on: the
\* result, the number of API calls made and the sleeps taken.  A valid
\* output is returned; an invalid one goes to the next attempt at once; an
\* exception ends the final attempt with the fallback and any other attempt
\* with a sleep.
RECURSIVE retry_loop(_, _, _, _, _)
retry_loop(prompt, max_retries, outcomes, attempt, sleeps) ==
    IF attempt > max_retries
    THEN [result |-> retries_exceeded(prompt, max_retries),
          calls |-> attempt - 1, sleeps |-> sleeps]
    ELSE IF outcomes[attempt].kind = "returns"
    THEN IF _is_valid_output(outcomes[attempt].result)
         THEN [result |-> outcomes[attempt].result, calls |-> attempt, sleeps |-> sleeps]
         ELSE retry_loop(prompt, max_retries, outcomes, attempt + 1, sleeps)
    ELSE IF attempt = max_retries
    THEN [result |-> failed_after_attempts(prompt, max_retries),
          calls |-> attempt, sleeps |-> sleeps]
    ELSE retry_loop(prompt, max_retries, outcomes, attempt + 1,
             Append(sleeps, [after |-> attempt, seconds |-> wait_time(attempt)]))

\* optimize_prompt: the validation, then the loop
optimize_prompt(input_data, max_retries, outcomes) ==
    IF _validate_input(input_data) # None
    THEN [result |-> _validate_input(input_data), calls |-> 0, sleeps |-> << >>]
    ELSE retry_loop(input_data.items.prompt, max_retries, outcomes, 1, << >>)

InitOptimizer ==
    /\ mode = "optimizer"
    /\ request = None
    /\ returned = None
    /\ pc = "idle"
    /\ tracker = TokenTracker
    /\ fed = << >>
    /\ WebIdle
    /\ OptimizerIdle
    /\ events = << >>
    /\ i = 0
    /\ ordered_responses = << >>
    /\ tasks = << >>
    /\ task = [t \in Indices |-> NoTask]
    /\ thread = [t \in Indices |-> "none"]
    /\ joined = FALSE
    /\ doneQueue = << >>
    /\ yielded = 0
    /\ idx = 0
    /\ dto = None
    /\ lines = << >>
    /\ resolved = << >>
    /\ saved = << >>

\* result = PromptOptimizer(max_retries=...).optimize_prompt(input_data),
\* where outcomes[k] is what the k-th call of the API does if it is made.
\* The call keeps nothing on the object, so a behaviour is one call.
CallOptimizePrompt(input_data, max_retries, outcomes) ==
    /\ mode = "optimizer"
    /\ optimizer = None
    /\ optimizer' = [input_data |-> input_data, max_retries |-> max_retries,
                     outcomes |-> outcomes,
                     calls |-> optimize_prompt(input_data, max_retries, outcomes).calls,
                     sleeps |-> optimize_prompt(input_data, max_retries, outcomes).sleeps]
    /\ returned' = Returns(optimize_prompt(input_data, max_retries, outcomes).result)
    /\ UNCHANGED << mode, request, pc, trackerVars, webVars, streamVars >>

NextOptimizer ==
    \E input_data \in InputDatas, max_retries \in 0..MaxRetries :
        \E outcomes \in [1..max_retries -> ApiOutcomes] :
            CallOptimizePrompt(input_data, max_retries, outcomes)

SpecOptimizer == InitOptimizer /\ [][NextOptimizer]_vars

\* the request the web server answered last
Last == returned.response

\* the text orchestrator.ask gives for the request's k-th model
TextOf(answered, k) ==
    WebAskResponse("success", answered.data.message, answered.data.models[k]).text

\* the last request answered was a compare request that ran the loop
ComparedLast ==
    /\ mode = "web"
    /\ returned # None
    /\ Last.data.compare_mode
    /\ Last.data.message # ""

\* the last request answered was a single-model request that failed after
\* the user message was added
SingleFailedLast ==
    /\ mode = "web"
    /\ returned # None
    /\ ~Last.data.compare_mode
    /\ Last.data.message # ""
    /\ Last.result.status = 500

\* C33: there is one session per session id under any interleaving: a
\* request holds the object that sessions has under its id, and no object
\* that was written to has been replaced in sessions.
C33_OneSessionPerId ==
    mode = "web" =>
        /\ \A t \in Threads :
               workers[t].session # 0 =>
                   workers[t].session = sessions[workers[t].data.session_id]
        /\ \A o \in 1..Len(heap) :
               heap[o].conversation # << >> => \E id \in DOMAIN sessions : sessions[id] = o

\* C34: a single-model request that fails, by an error response or by an
\* exception, leaves nothing in the conversation: its user message is
\* removed and no assistant message is added.
C34_FailureLeavesHistory ==
    SingleFailedLast =>
        \A k \in 1..Len(heap[Last.session].conversation) :
            /\ heap[Last.session].conversation[k].content # Last.data.message
            /\ heap[Last.session].conversation[k].content
                   # WebAskResponse("success", Last.data.message, MODEL_TYPE).text

\* C35: comparisons has one entry per requested model in request order; a
\* call that gave an error response or raised has an error entry with 0
\* tokens and 0 cost, and the calls after it are made all the same.
C35_OneEntryPerModel ==
    ComparedLast =>
        /\ Len(Last.result.comparisons) = Len(Last.data.models)
        /\ \A k \in 1..Len(Last.result.comparisons) :
               /\ Last.result.comparisons[k].provider = Last.data.models[k]
               /\ Last.outcomes[k] \in {"error", "raises"} =>
                      /\ Last.result.comparisons[k].response = NoneStr
                      /\ Last.result.comparisons[k].error # NoneStr
                      /\ Last.result.comparisons[k].tokens = 0
                      /\ Last.result.comparisons[k].cost = 0
               /\ Last.outcomes[k] = "success" =>
                      /\ Last.result.comparisons[k].response = Str(TextOf(Last, k))
                      /\ Last.result.comparisons[k].error = NoneStr

\* the first model's call raised and the second model answered
C35_Witness ==
    /\ ComparedLast
    /\ Last.outcomes = << "raises", "success" >>
    /\ Len(Last.result.comparisons) = 2
    /\ Last.result.comparisons[2].response = Str(TextOf(Last, 2))

\* the assistant messages of the conversation that answer the request
AnswersTo(answered) ==
    { k \in 1..Len(heap[answered.session].conversation) :
          /\ heap[answered.session].conversation[k].role = "assistant"
          /\ \E j \in 1..Len(answered.data.models) :
                 heap[answered.session].conversation[k].content = TextOf(answered, j) }

\* C36: a compare request appends at most one assistant message, the first
\* successful response in request order; the top-level response is that
\* text; and once the request is answered every user message is followed
\* by an assistant message.
C36_FirstSuccessIsTheResponse ==
    ComparedLast =>
        /\ Cardinality(AnswersTo(Last)) <= 1
        /\ \A k \in 1..Len(Last.outcomes) :
               (Last.outcomes[k] = "success"
                   /\ \A j \in 1..(k - 1) : Last.outcomes[j] # "success") =>
                   /\ \E m \in AnswersTo(Last) :
                          heap[Last.session].conversation[m].content = TextOf(Last, k)
                   /\ Last.result.response = Str(TextOf(Last, k))
        /\ (\A t \in Threads : workers[t].pc = "idle") =>
               \A o \in 1..Len(heap) : \A k \in 1..Len(heap[o].conversation) :
                   heap[o].conversation[k].role = "user" =>
                       /\ k < Len(heap[o].conversation)
                       /\ heap[o].conversation[k + 1].role = "assistant"

\* optimize_prompt has been called; Run is the call and Result its result
Optimized == mode = "optimizer" /\ optimizer # None
Run == optimizer
Result == returned.response

\* the input fails one of the checks the claim lists
InvalidInput(input_data) ==
    \/ input_data.py_type # "dict"
    \/ "prompt" \notin DOMAIN input_data.items
    \/ input_data.items.prompt.py_type # "str"
    \/ Strip(input_data.items.prompt.text) = ""
    \/ "settings" \in DOMAIN input_data.items /\ input_data.items.settings.py_type # "dict"

\* the attempts whose output passes validation
ValidAttempts(run) ==
    { k \in 1..run.max_retries :
          run.outcomes[k].kind = "returns" /\ run.outcomes[k].result \in ValidResults }

\* C37: optimize_prompt never raises and returns a dict with
\* optimized_prompt; for invalid input the dict has an error with a message
\* and no API call is made; every error of a result has a message.
C37_AlwaysADictWithPrompt ==
    Optimized =>
        /\ returned.kind = "value"
        /\ "optimized_prompt" \in DOMAIN Result
        /\ InvalidInput(Run.input_data) =>
               /\ "error" \in DOMAIN Result
               /\ Run.calls = 0
        /\ "error" \in DOMAIN Result => "message" \in DOMAIN Result.error.items

\* the prompt is blank and the call has returned an error without a call
C37_Witness ==
    /\ Optimized
    /\ Run.input_data = PyDict([prompt |-> PyStr("  ")])
    /\ Run.max_retries > 0
    /\ Run.calls = 0
    /\ Result.error.items.message = PyStr("Invalid input: 'prompt' cannot be empty")

\* C38: at most max_retries API calls are made whatever the outcomes; the
\* first attempt whose output is valid ends the call with that output; with
\* max_retries = 0 no call is made.
C38_StopsAtFirstValid ==
    (Optimized /\ ~InvalidInput(Run.input_data)) =>
        /\ Run.calls <= Run.max_retries
        /\ \A k \in ValidAttempts(Run) :
               (\A j \in 1..(k - 1) : j \notin ValidAttempts(Run)) =>
                   /\ Run.calls = k
                   /\ Result = Run.outcomes[k].result
        /\ Run.max_retries = 0 => Run.calls = 0

\* the second of three attempts is the first valid one and is the last made
C38_Witness ==
    /\ Optimized
    /\ Run.max_retries = 3
    /\ Run.outcomes[1].kind = "raises"
    /\ 2 \in ValidAttempts(Run)
    /\ Run.calls = 2
    /\ Result = Run.outcomes[2].result

\* C39: when no attempt gives a valid output the result is the fallback: the
\* caller's prompt unchanged, with an error; a result without error comes
\* from a valid attempt.
C39_FallbackKeepsPrompt ==
    (Optimized /\ ~InvalidInput(Run.input_data)) =>
        /\ ValidAttempts(Run) = {} =>
               /\ Result.optimized_prompt = Run.input_data.items.prompt
               /\ "error" \in DOMAIN Result
        /\ "error" \notin DOMAIN Result => ValidAttempts(Run) # {}

\* an exception and then an invalid output: the fallback after the loop
C39_Witness ==
    /\ Optimized
    /\ ~InvalidInput(Run.input_data)
    /\ Run.max_retries = 2
    /\ Run.outcomes[1].kind = "raises"
    /\ Run.outcomes[2].kind = "returns"
    /\ ValidAttempts(Run) = {}
    /\ Run.calls = 2
    /\ Result.optimized_prompt = PyStr(" tidy my text ")

\* the sleeps taken after attempt k
SleepsAfter(run, k) == SelectSeq(run.sleeps, LAMBDA sl : sl.after = k)

\* C40 as stated: before every retry k+1 the call waits 2^(k-1) seconds
\* whatever made attempt k fail, and it does not wait after the final attempt.
C40_BackoffBeforeEveryRetry ==
    Optimized =>
        /\ \A k \in 1..(Run.calls - 1) :
               SleepsAfter(Run, k) = << [after |-> k, seconds |-> Pow2(k - 1)] >>
        /\ \A k \in 1..Len(Run.sleeps) : Run.sleeps[k].after < Run.calls

\* C40 amended: the call waits 2^(k-1) seconds before retry k+1 when attempt
\* k raised, does not wait when attempt k returned an invalid output, and
\* does not wait after the final attempt.
C40_BackoffAfterException ==
    Optimized =>
        /\ \A k \in 1..(Run.calls - 1) :
               /\ Run.outcomes[k].kind = "raises" =>
                      SleepsAfter(Run, k) = << [after |-> k, seconds |-> Pow2(k - 1)] >>
               /\ Run.outcomes[k].kind = "returns" => SleepsAfter(Run, k) = << >>
        /\ \A k \in 1..Len(Run.sleeps) : Run.sleeps[k].after < Run.calls

\* three attempts: an exception, an invalid output, an exception; one sleep
\* of 1 second after the first
C40_Witness ==
    /\ Optimized
    /\ Run.max_retries = 3
    /\ Run.calls = 3
    /\ Run.outcomes[1].kind = "raises"
    /\ Run.outcomes[2].kind = "returns"
    /\ Run.outcomes[3].kind = "raises"
    /\ Run.sleeps = << [after |-> 1, seconds |-> 1] >>

====
